---- MODULE Spec2Model ----
(***************************************************************************)
(* Model of dchk: the bounded-concurrency pool (cli/utils/pool.ts), the    *)
(* RDAP response interpretation and two-tier lookup (cli/lib/rdap.ts), the *)
(* IANA bootstrap directory and its cache (cli/lib/iana-rdap.ts) and the   *)
(* batch driven by the check command (cli/commands/check.ts).              *)
(*                                                                         *)
(* JavaScript runs every callback to completion, so each action below is   *)
(* one run-to-completion step: the synchronous part of an async function   *)
(* up to its next await, or one promise reaction (.then/.catch/.finally).  *)
(* Reactions of different promise chains may interleave in any order.      *)
(***************************************************************************)
EXTENDS Integers, Sequences, FiniteSets, TLC

\* ------------------------------------------------------------------------
\* Bounds of the model
\* ------------------------------------------------------------------------
MaxItems == 3
MaxConcurrency == 4

\* ------------------------------------------------------------------------
\* Values
\* ------------------------------------------------------------------------
\* The JavaScript value undefined; also what reading an empty array slot
\* (new Array(n)) yields.  Defined items are the positive integers.
Undefined == 0

\* The item lists handed to the pool: position i holds either the defined
\* value i or undefined (the pool only ever tests an item against undefined).
ItemLists ==
  UNION { { l \in [1..n -> 0..n] : \A i \in 1..n : l[i] \in {Undefined, i} }
          : n \in 0..MaxItems }

\* The concurrency arguments tried (whole numbers), negative and zero
\* included.
ConcurrencyArgs == -1..MaxConcurrency

\* A deterministic worker: the value worker(item) resolves with when it
\* succeeds.  It is injective and never yields undefined, so a result in the
\* wrong slot, or a slot never written, is visible.
WorkerValue(item) == 2 * item + 1

Range(s) == { s[k] : k \in 1..Len(s) }

\* ------------------------------------------------------------------------
\* RDAP responses and their interpretation (cli/lib/rdap.ts)
\* ------------------------------------------------------------------------
\* An optional number (httpStatus?, errorCode?): <<>> when absent, <<n>>
\* when present.
Absent == <<>>

Some(n) == <<n>>

\* JSON values as far as the code looks at them: the kind of value and, for
\* an object, its errorCode member (absent, a number, or a string).
NoMember == [type |-> "absent", value |-> 0]

NumberMember(n) == [type |-> "number", value |-> n]

StringMember(n) == [type |-> "string", value |-> n]

JsonScalar(kind) == [kind |-> kind, errorCode |-> NoMember]

JsonNull == JsonScalar("null")

JsonObject(member) == [kind |-> "object", errorCode |-> member]

ScalarKinds == {"null", "false", "zero", "emptystring", "true", "number",
                "string", "array"}

ErrorCodeMembers == {NoMember, NumberMember(404), NumberMember(500),
                     NumberMember(200), StringMember(404)}

JsonValues == { JsonScalar(k) : k \in ScalarKinds }
                \cup { JsonObject(m) : m \in ErrorCodeMembers }

\* JavaScript truthiness (!json is its negation) and typeof json === 'object'.
Truthy(json) == json.kind \notin {"null", "false", "zero", "emptystring"}

TypeofObject(json) == json.kind \in {"null", "array", "object"}

\* (a variant without the typeof errorCode === 'number' test)
parseErrorCodeAnyType(json) ==
  IF ~Truthy(json) \/ ~TypeofObject(json) THEN Absent
  ELSE IF json.errorCode.type \in {"number", "string"}
  THEN Some(json.errorCode.value)
  ELSE Absent

parseErrorCode(json) ==
  IF ~Truthy(json) \/ ~TypeofObject(json) THEN Absent
  ELSE IF json.errorCode.type = "number" THEN Some(json.errorCode.value)
  ELSE Absent

\* (a variant that looks at the body's errorCode before the 404 status)
interpretRdapResponseBodyFirst(httpStatus, json) ==
  IF httpStatus = 200 /\ Truthy(json)
  THEN IF parseErrorCode(json) = Some(404)
       THEN [status |-> "available", errorCode |-> parseErrorCode(json)]
       ELSE [status |-> "registered", errorCode |-> Absent]
  ELSE IF parseErrorCode(json) = Some(404)
  THEN [status |-> "available", errorCode |-> parseErrorCode(json)]
  ELSE IF httpStatus = 404 /\ parseErrorCode(json) = Absent
  THEN [status |-> "available", errorCode |-> Some(404)]
  ELSE [status |-> "unknown", errorCode |-> parseErrorCode(json)]

interpretRdapResponse(httpStatus, json) ==
  IF httpStatus = 200 /\ Truthy(json)
  THEN IF parseErrorCode(json) = Some(404)
       THEN [status |-> "available", errorCode |-> parseErrorCode(json)]
       ELSE [status |-> "registered", errorCode |-> Absent]
  ELSE IF httpStatus = 404
  THEN [status |-> "available", errorCode |-> Some(404)]
  ELSE IF parseErrorCode(json) = Some(404)
  THEN [status |-> "available", errorCode |-> parseErrorCode(json)]
  ELSE [status |-> "unknown", errorCode |-> parseErrorCode(json)]

\* The body of a response as received: empty, text that is not JSON, or the
\* text of a JSON value.
RawEmpty == [text |-> "empty", value |-> JsonNull]

RawGarbage == [text |-> "garbage", value |-> JsonNull]

RawJson(v) == [text |-> "json", value |-> v]

RawBodies == {RawEmpty, RawGarbage} \cup { RawJson(v) : v \in JsonValues }

\* fetchJson's body parsing: response.json() when the content type says
\* JSON, else JSON.parse of a non-empty text; any parse error leaves null.
ParseBody(contentTypeJson, raw) ==
  IF contentTypeJson
  THEN IF raw.text = "json" THEN raw.value ELSE JsonNull
  ELSE IF raw.text = "empty" THEN JsonNull
       ELSE IF raw.text = "json" THEN raw.value ELSE JsonNull

\* What fetchJson yields: it throws (timeout abort, DNS failure, connection
\* reset) or returns status, parsed body, final URL and elapsed time.
FetchFailed == [ok |-> FALSE, status |-> 0, json |-> JsonNull,
                redirected |-> FALSE, responseTimeMs |-> 0]

FetchResult(st, json, redirected, ms) ==
  [ok |-> TRUE, status |-> st, json |-> json, redirected |-> redirected,
   responseTimeMs |-> ms]

\* A CheckResult; domain names are sequences of labels.
NoResult == [domain |-> <<>>, status |-> "none", httpStatus |-> Absent,
             errorCode |-> Absent, source |-> "", responseTimeMs |-> 0]

RedirectTarget == "https://rdap.registry.example/domain/"

\* (a variant that reports rdap.org as the source even after a redirect)
checkViaRdapOrgSourceFixed(domain, fetched) ==
  IF fetched.ok
  THEN LET interpretation == interpretRdapResponse(fetched.status, fetched.json)
       IN [domain |-> domain,
           status |-> interpretation.status,
           httpStatus |-> Some(fetched.status),
           errorCode |-> interpretation.errorCode,
           source |-> "rdap.org",
           responseTimeMs |-> fetched.responseTimeMs]
  ELSE [domain |-> domain, status |-> "unknown", httpStatus |-> Absent,
        errorCode |-> Absent, source |-> "rdap.org", responseTimeMs |-> 0]

\* checkViaRdapOrg, given what fetchJson did.
checkViaRdapOrg(domain, fetched) ==
  IF fetched.ok
  THEN LET interpretation == interpretRdapResponse(fetched.status, fetched.json)
       IN [domain |-> domain,
           status |-> interpretation.status,
           httpStatus |-> Some(fetched.status),
           errorCode |-> interpretation.errorCode,
           source |-> IF fetched.redirected THEN RedirectTarget ELSE "rdap.org",
           responseTimeMs |-> fetched.responseTimeMs]
  ELSE [domain |-> domain, status |-> "unknown", httpStatus |-> Absent,
        errorCode |-> Absent, source |-> "rdap.org", responseTimeMs |-> 0]

\* What checkViaAuthoritative returns once its query to authUrl answered
\* (a failed query makes it return null: see AuthoritativeResponse).
\* (a variant that keeps the aggregator as the source)
authoritativeResultFromAggregator(domain, url, fetched) ==
  LET interpretation == interpretRdapResponse(fetched.status, fetched.json)
  IN [domain |-> domain,
      status |-> interpretation.status,
      httpStatus |-> Some(fetched.status),
      errorCode |-> interpretation.errorCode,
      source |-> "rdap.org",
      responseTimeMs |-> fetched.responseTimeMs]

authoritativeResult(domain, url, fetched) ==
  LET interpretation == interpretRdapResponse(fetched.status, fetched.json)
  IN [domain |-> domain,
      status |-> interpretation.status,
      httpStatus |-> Some(fetched.status),
      errorCode |-> interpretation.errorCode,
      source |-> url,
      responseTimeMs |-> fetched.responseTimeMs]

\* ------------------------------------------------------------------------
\* The IANA bootstrap directory (cli/lib/iana-rdap.ts)
\* ------------------------------------------------------------------------
CACHE_TTL_MS == 60 * 60 * 1000

\* Date.now() advances in steps of half an hour in the model.
ClockStepMs == 30 * 60 * 1000

\* What Date.now() can return when the last reading was last: that or any
\* later time, up to limit steps after time 0.
ClockReadings(last, limit) ==
  { last + k * ClockStepMs : k \in 0..limit } \cap 0..(limit * ClockStepMs)

\* The absent URL (null); like null it is falsy.
NoUrl == ""

NoTld == ""

ToLowerCase(label) ==
  CASE label = "COM" -> "com"
    [] label = "Com" -> "com"
    [] label = "Org" -> "org"
    [] label = "ORG" -> "org"
    [] OTHER -> label

\* extractTld: the last label, lower-cased, of a name with more than one
\* label; null otherwise.
extractTld(domain) ==
  IF Len(domain) > 1 THEN ToLowerCase(domain[Len(domain)]) ELSE NoTld

\* The bootstrap document: services is a list of [tlds, urls] groups.
\* An entry svc of the list is a group when svc[0] is an array (tlds) and
\* svc[1] its URLs (urls, empty also when svc[1] is missing or null).
Service(tlds, urls) == [kind |-> "group", tlds |-> tlds, urls |-> urls]

\* Entries that are no group: null (reading svc[0] throws a TypeError); a
\* value that is not an array, such as a number or an object (svc[0] is
\* undefined); an array whose first element is missing or not an array,
\* such as [] or ['invalid'].
NullEntry == [kind |-> "null", tlds |-> <<>>, urls |-> <<>>]

ScalarEntry == [kind |-> "scalar", tlds |-> <<>>, urls |-> <<>>]

NoListEntry(urls) == [kind |-> "nolist", tlds |-> <<>>, urls |-> urls]

IanaDocument ==
  [services |-> << Service(<<"com", "net">>,
                           <<"https://rdap.verisign.example/com/v1/">>),
                   Service(<<"org">>,
                           <<"https://rdap.pir.example/rdap/",
                             "https://rdap2.pir.example/rdap/">>) >>]

\* A later edition of the document: org has moved, net is gone.
RevisedDocument ==
  [services |-> << Service(<<"com">>,
                           <<"https://rdap.verisign.example/com/v1/">>),
                   Service(<<"org">>,
                           <<"https://rdap.publicinterestregistry.example/rdap/">>) >>]

EmptyDocument == [services |-> <<>>]

\* find's callback threw.
Thrown == -1

\* bootstrap.services.find(svc => Array.isArray(svc[0]) && svc[0].includes(tld))
\* as the position of the first matching group, 0 when there is none and
\* Thrown when the callback threw on an entry before any matched; includes
\* compares strings exactly.
RECURSIVE FindService(_, _, _)
FindService(services, tld, k) ==
  IF k > Len(services) THEN 0
  ELSE IF services[k].kind = "null" THEN Thrown
  ELSE IF services[k].kind = "group" /\ tld \in Range(services[k].tlds) THEN k
  ELSE FindService(services, tld, k + 1)

\* The URL getAuthoritativeRdapUrl returns from the bootstrap data; its catch
\* turns an exception into null.
FirstUrl(data, tld) ==
  LET k == FindService(data.services, tld, 1)
  IN IF k = Thrown THEN NoUrl
     ELSE IF k = 0 THEN NoUrl
     ELSE IF Len(data.services[k].urls) = 0 THEN NoUrl
     ELSE data.services[k].urls[1]

\* ianaCache = { timestamp: now, data }
CacheEntry(now, data) == [present |-> TRUE, timestamp |-> now, data |-> data]

NoCache == [present |-> FALSE, timestamp |-> 0, data |-> EmptyDocument]

\* (variants: a TTL of half an hour; an entry still valid at exactly the TTL)
CacheValidHalfHour(cache, now) ==
  cache.present /\ (now - cache.timestamp) < ClockStepMs

CacheValidInclusive(cache, now) ==
  cache.present /\ (now - cache.timestamp) <= CACHE_TTL_MS

\* ianaCache && (now - ianaCache.timestamp) < CACHE_TTL_MS
CacheValid(cache, now) ==
  cache.present /\ (now - cache.timestamp) < CACHE_TTL_MS


\* ------------------------------------------------------------------------
\* isValidDomain (cli/lib/rdap.ts)
\* ------------------------------------------------------------------------
\* A string is the sequence of its characters.  [a-zA-Z0-9]:
AlphaNum ==
  { "a", "b", "c", "d", "e", "f", "g", "h", "i", "j", "k", "l", "m", "n",
    "o", "p", "q", "r", "s", "t", "u", "v", "w", "x", "y", "z",
    "A", "B", "C", "D", "E", "F", "G", "H", "I", "J", "K", "L", "M", "N",
    "O", "P", "Q", "R", "S", "T", "U", "V", "W", "X", "Y", "Z",
    "0", "1", "2", "3", "4", "5", "6", "7", "8", "9" }

\* [a-zA-Z0-9-]
LabelChars == AlphaNum \cup {"-"}

\* An argument of isValidDomain: a string, or a value of another type
\* (null, undefined, a number).
StringValue(chars) == [type |-> "string", chars |-> chars]

NonString(type) == [type |-> type, chars |-> <<>>]

\* The position after the run of [a-zA-Z0-9-] characters that starts at p.
RECURSIVE RunEnd(_, _)
RunEnd(s, p) ==
  IF p <= Len(s) /\ s[p] \in LabelChars THEN RunEnd(s, p + 1) ELSE p

\* [a-zA-Z0-9]([a-zA-Z0-9-]{0,61}[a-zA-Z0-9])? matches s[p..e-1].
LabelMatches(s, p, e) ==
  /\ e > p
  /\ s[p] \in AlphaNum
  /\ \/ e - p = 1
     \/ (e - p) - 2 <= 61 /\ s[e - 1] \in AlphaNum

\* The rest of domainRegex matches s from p on: a label, then either the end
\* of the string or a dot and the rest again.  No character of a label is a
\* dot, so a label always extends to the next character outside
\* [a-zA-Z0-9-].
RECURSIVE RegexTestFrom(_, _)
RegexTestFrom(s, p) ==
  LET e == RunEnd(s, p)
  IN /\ LabelMatches(s, p, e)
     /\ IF e > Len(s) THEN TRUE
        ELSE s[e] = "." /\ RegexTestFrom(s, e + 1)

\* domainRegex.test(domain)
domainRegexTest(s) == RegexTestFrom(s, 1)

\* (variant: no limit on the total length)
isValidDomainAnyLength(domain) ==
  IF domain.type # "string" \/ domain.chars = <<>> THEN FALSE
  ELSE domainRegexTest(domain.chars)

\* if (!domain || typeof domain !== 'string') return false;
\* return domainRegex.test(domain) && domain.length <= 253;
isValidDomain(domain) ==
  IF domain.type # "string" \/ domain.chars = <<>> THEN FALSE
  ELSE domainRegexTest(domain.chars) /\ Len(domain.chars) <= 253

\* labels.join('.')
RECURSIVE Join(_)
Join(labels) ==
  IF Len(labels) = 0 THEN <<>>
  ELSE IF Len(labels) = 1 THEN labels[1]
  ELSE labels[1] \o <<".">> \o Join(Tail(labels))

\* The characters of the labels the model's domains are made of.
Spelling(label) ==
  CASE label = "example" -> <<"e", "x", "a", "m", "p", "l", "e">>
    [] label = "www" -> <<"w", "w", "w">>
    [] label = "localhost" -> <<"l", "o", "c", "a", "l", "h", "o", "s", "t">>
    [] label = "-bad" -> <<"-", "b", "a", "d">>
    [] label = "COM" -> <<"C", "O", "M">>
    [] label = "com" -> <<"c", "o", "m">>
    [] label = "Org" -> <<"O", "r", "g">>
    [] label = "zz" -> <<"z", "z">>

\* A domain of the model (a sequence of labels) as the string passed around.
NameOf(domain) ==
  StringValue(Join([i \in 1..Len(domain) |-> Spelling(domain[i])]))

\* ------------------------------------------------------------------------
\* The summary and exit code of the check command (cli/commands/check.ts)
\* ------------------------------------------------------------------------
\* let overallStatus = 'available'; let hasErrors = false;
SummaryStart == [overallStatus |-> "available", hasErrors |-> FALSE]

\* (variant: hasErrors follows the result at hand)
SummaryStepLastWins(acc, status) ==
  IF status = "unknown" THEN [acc EXCEPT !.hasErrors = TRUE]
  ELSE IF status = "registered"
  THEN [overallStatus |-> "registered", hasErrors |-> FALSE]
  ELSE [acc EXCEPT !.hasErrors = FALSE]

\* One pass of the for loop over results, for a result with this status.
SummaryStep(acc, status) ==
  IF status = "unknown" THEN [acc EXCEPT !.hasErrors = TRUE]
  ELSE IF status = "registered"
  THEN IF acc.overallStatus = "available"
       THEN [acc EXCEPT !.overallStatus = "registered"]
       ELSE IF acc.overallStatus # "registered"
       THEN [acc EXCEPT !.overallStatus = "mixed"]
       ELSE acc
  ELSE acc

RECURSIVE SummaryLoop(_, _, _)
SummaryLoop(res, k, acc) ==
  IF k > Len(res) THEN acc
  ELSE SummaryLoop(res, k + 1, SummaryStep(acc, res[k].status))

\* The loop, then if (hasErrors) overallStatus = 'error'.
Summary(res) ==
  LET acc == SummaryLoop(res, 1, SummaryStart)
  IN IF acc.hasErrors THEN [acc EXCEPT !.overallStatus = "error"] ELSE acc

\* The argument of the final process.exit.
ExitCodeOf(overall) ==
  IF overall = "available" THEN 0
  ELSE IF overall = "registered" \/ overall = "mixed" THEN 1
  ELSE 2


VARIABLES
  mode,        \* "batch" (runConcurrent) or "streaming" (runConcurrentStreaming)
  items,       \* the items argument
  concArg,     \* the concurrency argument as passed by the caller
  concurrency, \* the local variable concurrency (after the <= 0 clamp)
  pc,          \* where the pool function is: start, race, drained, all, fast,
               \* resolved, rejected
  index,       \* the local variable index (number of items consumed)
  active,      \* the local array active, as the indices whose promise it holds
  wstate,      \* per item: stage of its promise chain
  outcome,     \* per item: how its worker settled: none, ok, fail (never:
               \* its promise stays pending for ever)
  reactions,   \* the .then reactions of settled workers still to run, oldest first
  wvalue,      \* per item: the value its worker's promise fulfilled with
  results,     \* the local array results (batch mode, pooled path)
  callOrder,   \* indices in the order worker() was invoked
  callbacks,   \* streaming: the <<result, item>> pairs onResult was invoked with
  raceSnap,    \* the promises Promise.race(active) was called on
  raceResult,  \* none, pending, fulfilled, rejected
  allSnap,     \* the promises Promise.all(active) was called on
  returned,    \* the array the call resolved with (batch), once resolved
  \* checkDomain calls (the workers of the check command's batch)
  fallback,      \* options.fallback
  clock,         \* Date.now()
  ianaCache,     \* the module variable ianaCache
  cstate,        \* per domain: idle, primary, bootstrap, authoritative, done
  primaryResult, \* per domain: checkDomain's primaryResult
  lookupNow,     \* per domain: the local now of getIanaBootstrap
  authUrl,       \* per domain: checkViaAuthoritative's authUrl
  sent,          \* per domain: the requests issued, in order
  observed,      \* per domain: what each of its requests came back with
  lookups,       \* the direct calls of getAuthoritativeRdapUrl, in call order
  invalidated,   \* clearIanaCache() has returned and no lookup has started since
  \* one interpretation of one response
  iStatus,       \* response.status
  iContentJson,  \* whether the content type includes "json"
  iRaw,          \* the body as received
  iJson,         \* fetchJson's json
  iResult,       \* what interpretRdapResponse returned
  iPc,           \* off, fetched, parsed, interpreted
  \* one application of isValidDomain
  vDomain,       \* the argument
  vResult,       \* what isValidDomain returned: none, yes, no
  \* one scan of bootstrap data by getAuthoritativeRdapUrl
  sDomain,       \* the domain argument
  sData,         \* what getIanaBootstrap returned
  sUrl,          \* the URL returned
  sPc,           \* off, loaded, returned
  \* the check command
  cmdPc,         \* off, called, running, results, exited
  cmdResults,    \* check's results
  overallStatus, \* check's overallStatus
  hasErrors,     \* check's hasErrors
  exitCode       \* the code process.exit was called with, -1 before that

poolVars == <<mode, items, concArg, concurrency, pc, index, active, wstate,
              outcome, reactions, wvalue, results, callOrder, callbacks, raceSnap,
              raceResult, allSnap, returned>>

rdapVars == <<fallback, clock, ianaCache, cstate, primaryResult, lookupNow,
              authUrl, sent, observed, lookups, invalidated>>

interpVars == <<iStatus, iContentJson, iRaw, iJson, iResult, iPc>>

validVars == <<vDomain, vResult>>

scanVars == <<sDomain, sData, sUrl, sPc>>

cmdVars == <<cmdPc, cmdResults, overallStatus, hasErrors, exitCode>>

otherVars == <<validVars, scanVars, cmdVars>>

vars == <<poolVars, rdapVars, interpVars, otherVars>>

N == Len(items)

\* ------------------------------------------------------------------------
\* processNext: the while loop of both pool functions, run from the current
\* index until it awaits Promise.race(active) or runs out of items.
\* ------------------------------------------------------------------------
\* if (active.length >= concurrency) await Promise.race(active)
AtCapacityOffByOne(len, conc) == len > conc

AtCapacity(len, conc) == len >= conc

\* (variant: the loop takes the items from the end of the list)
CurrentIndexFromEnd(idx) == N - idx

\* const currentIndex = index++, as the 1-based position of items[index]
CurrentIndex(idx) == idx + 1

RECURSIVE ProcessNext(_, _, _, _, _)
ProcessNext(idx, act, ws, ord, conc) ==
  IF ~(idx < N)
  THEN [index |-> idx, active |-> act, wstate |-> ws, callOrder |-> ord,
        awaiting |-> FALSE]
  ELSE LET currentIndex == CurrentIndex(idx)
           item == items[currentIndex]
       IN IF item = Undefined
          THEN ProcessNext(idx + 1, act, ws, ord, conc)
          ELSE LET act2 == Append(act, currentIndex)
                   ws2  == [ws EXCEPT ![currentIndex] = "running"]
                   ord2 == Append(ord, currentIndex)
               IN IF AtCapacity(Len(act2), conc)
                  THEN [index |-> idx + 1, active |-> act2, wstate |-> ws2,
                        callOrder |-> ord2, awaiting |-> TRUE]
                  ELSE ProcessNext(idx + 1, act2, ws2, ord2, conc)

\* The effect of running processNext from the current state, with the
\* concurrency limit conc.
RunProcessNext(conc) ==
  LET r == ProcessNext(index, active, wstate, callOrder, conc)
  IN /\ index' = r.index
     /\ active' = r.active
     /\ wstate' = r.wstate
     /\ callOrder' = r.callOrder
     /\ IF r.awaiting
        THEN /\ pc' = "race"
             /\ raceSnap' = Range(r.active)
             /\ raceResult' = "pending"
        ELSE /\ pc' = "drained"
             /\ raceSnap' = {}
             /\ raceResult' = "none"

\* if (concurrency <= 0) concurrency = 1
ClampToTwo(c) == IF c <= 0 THEN 2 ELSE c

Clamp(c) == IF c <= 0 THEN 1 ELSE c

\* No checkDomain call and no interpretation is under way.
RdapIdle ==
  /\ fallback = FALSE
  /\ clock = 0
  /\ ianaCache = NoCache
  /\ cstate = <<>>
  /\ primaryResult = <<>>
  /\ lookupNow = <<>>
  /\ authUrl = <<>>
  /\ sent = <<>>
  /\ observed = <<>>
  /\ lookups = <<>>
  /\ invalidated = FALSE

InterpIdle ==
  /\ iStatus = 0
  /\ iContentJson = FALSE
  /\ iRaw = RawEmpty
  /\ iJson = JsonNull
  /\ iResult = [status |-> "none", errorCode |-> Absent]
  /\ iPc = "off"

\* No isValidDomain call, no scan of bootstrap data and no check command is
\* under way.
ValidIdle ==
  /\ vDomain = NonString("undefined")
  /\ vResult = "none"

ScanIdle ==
  /\ sDomain = <<>>
  /\ sData = EmptyDocument
  /\ sUrl = NoUrl
  /\ sPc = "off"

CmdIdle ==
  /\ cmdPc = "off"
  /\ cmdResults = <<>>
  /\ overallStatus = "available"
  /\ hasErrors = FALSE
  /\ exitCode = -1

OtherIdle == ValidIdle /\ ScanIdle /\ CmdIdle

PoolInit(modes, lists, concurrencies, empty) ==
  /\ mode \in modes
  /\ items \in lists
  /\ concArg \in concurrencies
  /\ concurrency = concArg
  /\ pc = "start"
  /\ index = 0
  /\ active = <<>>
  /\ wstate = [i \in 1..Len(items) |-> "idle"]
  /\ outcome = [i \in 1..Len(items) |-> "none"]
  /\ reactions = <<>>
  /\ wvalue = [i \in 1..Len(items) |-> empty]
  /\ results = [i \in 1..Len(items) |-> empty]
  /\ callOrder = <<>>
  /\ callbacks = <<>>
  /\ raceSnap = {}
  /\ raceResult = "none"
  /\ allSnap = {}
  /\ returned = <<>>

Init ==
  /\ PoolInit({"batch", "streaming"}, ItemLists, ConcurrencyArgs, Undefined)
  /\ RdapIdle
  /\ InterpIdle
  /\ OtherIdle

\* runConcurrent / runConcurrentStreaming, from entry to the first await.
CallEmpty ==
  /\ pc = "start"
  /\ N = 0
  /\ pc' = "resolved"
  /\ UNCHANGED <<mode, items, concArg, concurrency, index, active, wstate,
                 outcome, reactions, wvalue, results, callOrder, callbacks, raceSnap, raceResult,
                 allSnap, returned>>

\* Batch mode with concurrency >= items.length: Promise.all(items.map(worker)).
CallFast ==
  /\ pc = "start"
  /\ N > 0
  /\ mode = "batch"
  /\ concurrency' = Clamp(concArg)
  /\ concurrency' >= N
  /\ wstate' = [i \in 1..N |-> "running"]
  /\ callOrder' = [i \in 1..N |-> i]
  /\ pc' = "fast"
  /\ UNCHANGED <<mode, items, concArg, index, active, outcome, reactions, wvalue, results,
                 callbacks, raceSnap, raceResult, allSnap, returned>>

\* The pooled path: results/index/active are set up and processNext starts.
CallPool ==
  /\ pc = "start"
  /\ N > 0
  /\ concurrency' = Clamp(concArg)
  /\ mode = "batch" => ~(concurrency' >= N)
  /\ RunProcessNext(Clamp(concArg))
  /\ UNCHANGED <<mode, items, concArg, outcome, reactions, wvalue, results, callbacks, allSnap,
                 returned>>

\* TRUE once the call has taken the pooled path (the promise chains with
\* .then/.finally exist only there).
Pooled == pc # "start" /\ ~(mode = "batch" /\ concurrency >= N)

\* A promise that settles queues the reactions registered on it as jobs, and
\* the jobs run first in, first out: on the pooled path the reaction of
\* worker(item).then(...) joins the queue when the worker's promise settles.
Enqueue(queue, i) == IF Pooled THEN Append(queue, i) ELSE queue

\* The reaction of chain i is the one to run.
AnyReaction(queue, i) == \E k \in 1..Len(queue) : queue[k] = i

NextReaction(queue, i) == queue # <<>> /\ Head(queue) = i

\* The promise returned by worker(items[i]) settles.
WorkerSettle(i, ok) ==
  /\ wstate[i] = "running"
  /\ outcome[i] = "none"
  /\ reactions' = Enqueue(reactions, i)
  /\ wstate' = [wstate EXCEPT ![i] = IF ok THEN "fulfilled" ELSE "rejected"]
  /\ outcome' = [outcome EXCEPT ![i] = IF ok THEN "ok" ELSE "fail"]
  /\ wvalue' = [wvalue EXCEPT ![i] = IF ok THEN WorkerValue(items[i]) ELSE @]
  /\ UNCHANGED <<mode, items, concArg, concurrency, pc, index, active,
                 results, callOrder, callbacks, raceSnap, raceResult, allSnap,
                 returned>>

\* Batch: .then((result) => { results[currentIndex] = result; }).
\* A rejection passes through to the derived promise.
StoreResultAtNext(res, i, value) == [res EXCEPT ![(i % Len(res)) + 1] = value]

StoreResult(res, i, value) == [res EXCEPT ![i] = value]

ThenBatch(i) ==
  /\ Pooled
  /\ mode = "batch"
  /\ wstate[i] \in {"fulfilled", "rejected"}
  /\ NextReaction(reactions, i)
  /\ reactions' = SelectSeq(reactions, LAMBDA x : x # i)
  /\ IF wstate[i] = "fulfilled"
     THEN /\ results' = StoreResult(results, i, wvalue[i])
          /\ wstate' = [wstate EXCEPT ![i] = "thenOk"]
     ELSE /\ results' = results
          /\ wstate' = [wstate EXCEPT ![i] = "thenErr"]
  /\ UNCHANGED <<mode, items, concArg, concurrency, pc, index, active,
                 outcome, wvalue, callOrder, callbacks, raceSnap, raceResult, allSnap,
                 returned>>

\* Streaming: .then((result) => { onResult(result, item); }).  onResult is
\* the caller's code: it returns or throws.
ThenStreaming(i, throws) ==
  /\ Pooled
  /\ mode = "streaming"
  /\ wstate[i] \in {"fulfilled", "rejected"}
  /\ NextReaction(reactions, i)
  /\ reactions' = SelectSeq(reactions, LAMBDA x : x # i)
  /\ IF wstate[i] = "fulfilled"
     THEN /\ callbacks' = Append(callbacks, <<wvalue[i], items[i]>>)
          /\ wstate' = [wstate EXCEPT ![i] = IF throws THEN "thenErr" ELSE "thenOk"]
     ELSE /\ throws = FALSE
          /\ callbacks' = callbacks
          /\ wstate' = [wstate EXCEPT ![i] = "thenErr"]
  /\ UNCHANGED <<mode, items, concArg, concurrency, pc, index, active,
                 outcome, wvalue, results, callOrder, raceSnap, raceResult, allSnap,
                 returned>>

\* (variant: without the .catch a rejection stays a rejection)
CatchOutcomeRethrows(st) == IF st = "thenErr" THEN "caughtErr" ELSE "caught"

\* Streaming: .catch(() => {}) turns a rejection into a fulfilment.
CatchOutcome(st) == "caught"

CatchStreaming(i) ==
  /\ Pooled
  /\ mode = "streaming"
  /\ wstate[i] \in {"thenOk", "thenErr"}
  /\ wstate' = [wstate EXCEPT ![i] = CatchOutcome(wstate[i])]
  /\ UNCHANGED <<mode, items, concArg, concurrency, pc, index, active,
                 outcome, reactions, wvalue, results, callOrder, callbacks, raceSnap, raceResult,
                 allSnap, returned>>

\* active.indexOf(promise) / active.splice(promiseIndex, 1)
RemoveActive(act, i) == SelectSeq(act, LAMBDA x : x # i)

\* .finally(() => { remove the promise from active }); the promise kept in
\* active then settles as its chain did, which settles a pending
\* Promise.race it was handed to.
Finally(i) ==
  /\ Pooled
  /\ \/ mode = "batch" /\ wstate[i] \in {"thenOk", "thenErr"}
     \/ mode = "streaming" /\ wstate[i] \in {"caught", "caughtErr"}
  /\ LET ok == wstate[i] \in {"thenOk", "caught"}
     IN /\ wstate' = [wstate EXCEPT ![i] = IF ok THEN "doneOk" ELSE "doneErr"]
        /\ active' = RemoveActive(active, i)
        /\ raceResult' = IF raceResult = "pending" /\ i \in raceSnap
                         THEN (IF ok THEN "fulfilled" ELSE "rejected")
                         ELSE raceResult
  /\ UNCHANGED <<mode, items, concArg, concurrency, pc, index, outcome, reactions, wvalue,
                 results, callOrder, callbacks, raceSnap, allSnap, returned>>

\* processNext continues after await Promise.race(active): the loop goes on
\* when the race fulfilled; a rejected race is thrown out of processNext and
\* out of the pool function.
ResumeLoop ==
  /\ pc = "race"
  /\ raceResult = "fulfilled"
  /\ RunProcessNext(concurrency)
  /\ UNCHANGED <<mode, items, concArg, concurrency, outcome, reactions, wvalue, results,
                 callbacks, allSnap, returned>>

ResumeThrow ==
  /\ pc = "race"
  /\ raceResult = "rejected"
  /\ pc' = "rejected"
  /\ raceSnap' = {}
  /\ raceResult' = "none"
  /\ UNCHANGED <<mode, items, concArg, concurrency, index, active, wstate,
                 outcome, reactions, wvalue, results, callOrder, callbacks, allSnap, returned>>

\* await processNext() returns; Promise.all(active) is called on what active
\* holds by then.
AwaitAll ==
  /\ pc = "drained"
  /\ pc' = "all"
  /\ allSnap' = Range(active)
  /\ UNCHANGED <<mode, items, concArg, concurrency, index, active, wstate,
                 outcome, reactions, wvalue, results, callOrder, callbacks, raceSnap, raceResult,
                 returned>>

\* Promise.all(active) fulfils when every promise it was called on has.
AllSettled(snap, ws) == \A i \in snap : ws[i] = "doneOk"

AllResolve ==
  /\ pc = "all"
  /\ AllSettled(allSnap, wstate)
  /\ pc' = "resolved"
  /\ returned' = IF mode = "batch" THEN results ELSE returned
  /\ UNCHANGED <<mode, items, concArg, concurrency, index, active, wstate,
                 outcome, reactions, wvalue, results, callOrder, callbacks, raceSnap, raceResult,
                 allSnap>>

\* Promise.all(active) rejects as soon as one of its promises rejects.
AllReject ==
  /\ pc = "all"
  /\ \E i \in allSnap : wstate[i] = "doneErr"
  /\ pc' = "rejected"
  /\ UNCHANGED <<mode, items, concArg, concurrency, index, active, wstate,
                 outcome, reactions, wvalue, results, callOrder, callbacks, raceSnap, raceResult,
                 allSnap, returned>>

\* The fast path: return Promise.all(items.map(worker)).
FastValues == [i \in 1..N |-> wvalue[i]]

FastResolve ==
  /\ pc = "fast"
  /\ \A i \in 1..N : wstate[i] = "fulfilled"
  /\ pc' = "resolved"
  /\ returned' = FastValues
  /\ UNCHANGED <<mode, items, concArg, concurrency, index, active, wstate,
                 outcome, reactions, wvalue, results, callOrder, callbacks, raceSnap, raceResult,
                 allSnap>>

FastReject ==
  /\ pc = "fast"
  /\ \E i \in 1..N : wstate[i] = "rejected"
  /\ pc' = "rejected"
  /\ UNCHANGED <<mode, items, concArg, concurrency, index, active, wstate,
                 outcome, reactions, wvalue, results, callOrder, callbacks, raceSnap, raceResult,
                 allSnap, returned>>

\* The pool with an abstract worker that succeeds or fails.
Next ==
  \/ CallEmpty /\ UNCHANGED <<rdapVars, interpVars, otherVars>>
  \/ CallFast /\ UNCHANGED <<rdapVars, interpVars, otherVars>>
  \/ CallPool /\ UNCHANGED <<rdapVars, interpVars, otherVars>>
  \/ \E i \in 1..N, ok \in BOOLEAN :
       WorkerSettle(i, ok) /\ UNCHANGED <<rdapVars, interpVars, otherVars>>
  \/ \E i \in 1..N : ThenBatch(i) /\ UNCHANGED <<rdapVars, interpVars, otherVars>>
  \/ \E i \in 1..N, throws \in BOOLEAN :
       ThenStreaming(i, throws) /\ UNCHANGED <<rdapVars, interpVars, otherVars>>
  \/ \E i \in 1..N : CatchStreaming(i) /\ UNCHANGED <<rdapVars, interpVars, otherVars>>
  \/ \E i \in 1..N : Finally(i) /\ UNCHANGED <<rdapVars, interpVars, otherVars>>
  \/ ResumeLoop /\ UNCHANGED <<rdapVars, interpVars, otherVars>>
  \/ ResumeThrow /\ UNCHANGED <<rdapVars, interpVars, otherVars>>
  \/ AwaitAll /\ UNCHANGED <<rdapVars, interpVars, otherVars>>
  \/ AllResolve /\ UNCHANGED <<rdapVars, interpVars, otherVars>>
  \/ AllReject /\ UNCHANGED <<rdapVars, interpVars, otherVars>>
  \/ FastResolve /\ UNCHANGED <<rdapVars, interpVars, otherVars>>
  \/ FastReject /\ UNCHANGED <<rdapVars, interpVars, otherVars>>

Spec == Init /\ [][Next]_vars

\* A worker whose promise never settles (a hung task): at most one per call.
WorkerHangs(i) ==
  /\ wstate[i] = "running"
  /\ outcome[i] = "none"
  /\ \A j \in 1..N : outcome[j] # "never"
  /\ outcome' = [outcome EXCEPT ![i] = "never"]
  /\ UNCHANGED <<mode, items, concArg, concurrency, pc, index, active, wstate,
                 reactions, wvalue, results, callOrder, callbacks, raceSnap,
                 raceResult, allSnap, returned>>

NextHung ==
  \/ Next
  \/ \E i \in 1..N : WorkerHangs(i) /\ UNCHANGED <<rdapVars, interpVars, otherVars>>

\* Every queued job runs and every worker that does not hang settles: no
\* step of the pool that can be taken is put off for ever.
SpecHung == Init /\ [][NextHung]_vars /\ WF_vars(Next)

\* ------------------------------------------------------------------------
\* checkDomain as the worker of a batch: runConcurrent(allDomains,
\* concurrency, (domain) => checkDomain(domain, checkOptions))
\* ------------------------------------------------------------------------
MaxDomains == 2
MaxTicks == 2

\* The domain an item stands for; names are sequences of labels.
DomainOf(item) ==
  CASE item = 4 -> <<"-bad", "com">>
    [] item % 3 = 1 -> <<"example", "COM">>
    [] item % 3 = 2 -> <<"example", "zz">>
    [] OTHER -> <<"localhost">>

DomainLists == { [i \in 1..n |-> i] : n \in 0..MaxDomains }

\* What a request of the batch can come back with.
BatchFetchOutcomes ==
  { FetchFailed,
    FetchResult(200, JsonObject(NoMember), FALSE, 40),
    FetchResult(404, JsonNull, FALSE, 40),
    FetchResult(500, JsonObject(NumberMember(500)), TRUE, 40) }

\* The bootstrap fetch fails (network error, non-OK status) or yields the
\* document.
BootstrapFailed == [ok |-> FALSE, data |-> EmptyDocument]

BootstrapFetched(data) == [ok |-> TRUE, data |-> data]

BootstrapOutcomes == {BootstrapFailed, BootstrapFetched(IanaDocument)}

InitBatch ==
  /\ PoolInit({"batch"}, DomainLists, 0..MaxDomains, NoResult)
  /\ fallback \in BOOLEAN
  /\ clock = 0
  /\ ianaCache = NoCache
  /\ cstate = [i \in 1..Len(items) |-> "idle"]
  /\ primaryResult = [i \in 1..Len(items) |-> NoResult]
  /\ lookupNow = [i \in 1..Len(items) |-> 0]
  /\ authUrl = [i \in 1..Len(items) |-> NoUrl]
  /\ sent = [i \in 1..Len(items) |-> <<>>]
  /\ observed = [i \in 1..Len(items) |-> <<>>]
  /\ lookups = <<>>
  /\ invalidated = FALSE
  /\ InterpIdle
  /\ OtherIdle

\* Every worker the pool step started is a checkDomain call, which issues
\* its primary query at once.
StartCheckDomain ==
  /\ cstate' = [i \in 1..N |->
                  IF wstate[i] = "idle" /\ wstate'[i] = "running"
                  THEN "primary" ELSE cstate[i]]
  /\ sent' = [i \in 1..N |->
                IF wstate[i] = "idle" /\ wstate'[i] = "running"
                THEN Append(sent[i], "primary") ELSE sent[i]]
  /\ UNCHANGED <<fallback, clock, ianaCache, primaryResult, lookupNow,
                 authUrl, observed, lookups, invalidated>>

\* checkDomain returns result: the worker's promise fulfils with it.
Return(i, result) ==
  /\ cstate' = [cstate EXCEPT ![i] = "done"]
  /\ wstate' = [wstate EXCEPT ![i] = "fulfilled"]
  /\ outcome' = [outcome EXCEPT ![i] = "ok"]
  /\ reactions' = Enqueue(reactions, i)
  /\ wvalue' = [wvalue EXCEPT ![i] = result]

\* What an RDAP query came back with, as kept in observed: the fetch result
\* and the status interpretRdapResponse gave it.
Observation(kind, fetched) ==
  [kind |-> kind, ok |-> fetched.ok,
   status |-> IF fetched.ok
              THEN interpretRdapResponse(fetched.status, fetched.json).status
              ELSE "none",
   fetched |-> fetched]

\* A bootstrap lookup as kept in observed: answered from the cache
\* ("cached"), or by a fetch that succeeded or failed ("bootstrap").
LookupObservation(kind, ok) ==
  [kind |-> kind, ok |-> ok, status |-> "none", fetched |-> FetchFailed]

\* getAuthoritativeRdapUrl has the bootstrap data: without a URL for the TLD
\* checkViaAuthoritative returns null and checkDomain returns primaryResult;
\* with one, the authoritative query is issued.
QueryAuthoritative(i, data, primary) ==
  LET url == FirstUrl(data, extractTld(DomainOf(items[i])))
  IN IF url = NoUrl
     THEN /\ Return(i, primary)
          /\ UNCHANGED <<authUrl>>
     ELSE /\ cstate' = [cstate EXCEPT ![i] = "authoritative"]
          /\ authUrl' = [authUrl EXCEPT ![i] = url]
          /\ UNCHANGED <<wstate, outcome, reactions, wvalue>>

\* (a variant that issues the authoritative query twice)
SentTwiceAfterLookup(i, data) ==
  IF FirstUrl(data, extractTld(DomainOf(items[i]))) = NoUrl
  THEN sent
  ELSE [sent EXCEPT ![i] = Append(Append(@, "authoritative"), "authoritative")]

SentAfterLookup(i, data) ==
  IF FirstUrl(data, extractTld(DomainOf(items[i]))) = NoUrl
  THEN sent
  ELSE [sent EXCEPT ![i] = Append(@, "authoritative")]

\* Whether checkDomain returns its primary result without trying the
\* authoritative server.
\* (variants: one that ignores options.fallback, one that always goes on to
\* the authoritative server)
ReturnsPrimaryIfDefinitive(primary, fb) == primary.status # "unknown"

ReturnsPrimaryIfDisabled(primary, fb) == ~fb

ReturnsPrimary(primary, fb) == primary.status # "unknown" \/ ~fb

\* The primary query settles: checkViaRdapOrg builds primaryResult, and
\* checkDomain returns it or goes on to checkViaAuthoritative, which reads the
\* bootstrap cache and either uses it or fetches the directory.  now is what
\* Date.now() returns in getIanaBootstrap.
PrimaryResponse(i, fetched, now) ==
  /\ wstate[i] = "running"
  /\ cstate[i] = "primary"
  /\ LET domain == DomainOf(items[i])
         primary == checkViaRdapOrg(domain, fetched)
         seen == Append(observed[i], Observation("primary", fetched))
     IN /\ primaryResult' = [primaryResult EXCEPT ![i] = primary]
        /\ IF ReturnsPrimary(primary, fallback) \/ extractTld(domain) = NoTld
           THEN /\ now = clock
                /\ Return(i, primary)
                /\ observed' = [observed EXCEPT ![i] = seen]
                /\ UNCHANGED <<lookupNow, authUrl, sent>>
           ELSE IF CacheValid(ianaCache, now)
           THEN /\ QueryAuthoritative(i, ianaCache.data, primary)
                /\ sent' = SentAfterLookup(i, ianaCache.data)
                /\ observed' = [observed EXCEPT ![i] =
                                  Append(seen, LookupObservation("cached", TRUE))]
                /\ lookupNow' = [lookupNow EXCEPT ![i] = now]
           ELSE /\ cstate' = [cstate EXCEPT ![i] = "bootstrap"]
                /\ lookupNow' = [lookupNow EXCEPT ![i] = now]
                /\ sent' = [sent EXCEPT ![i] = Append(@, "bootstrap")]
                /\ observed' = [observed EXCEPT ![i] = seen]
                /\ UNCHANGED <<authUrl, wstate, outcome, reactions, wvalue>>
  /\ clock' = now
  /\ UNCHANGED <<fallback, ianaCache, lookups, invalidated>>
  /\ UNCHANGED <<mode, items, concArg, concurrency, pc, index, active,
                 results, callOrder, callbacks, raceSnap, raceResult, allSnap,
                 returned>>

\* The bootstrap fetch settles: on failure getAuthoritativeRdapUrl returns
\* null; on success getIanaBootstrap stores the data under the now it read
\* before fetching.
BootstrapResponse(i, fetched) ==
  /\ wstate[i] = "running"
  /\ cstate[i] = "bootstrap"
  /\ observed' = [observed EXCEPT ![i] =
                    Append(@, LookupObservation("bootstrap", fetched.ok))]
  /\ IF fetched.ok
     THEN /\ ianaCache' = CacheEntry(lookupNow[i], fetched.data)
          /\ QueryAuthoritative(i, fetched.data, primaryResult[i])
          /\ sent' = SentAfterLookup(i, fetched.data)
     ELSE /\ Return(i, primaryResult[i])
          /\ UNCHANGED <<ianaCache, authUrl, sent>>
  /\ UNCHANGED <<fallback, clock, primaryResult, lookupNow, lookups, invalidated>>
  /\ UNCHANGED <<mode, items, concArg, concurrency, pc, index, active,
                 results, callOrder, callbacks, raceSnap, raceResult, allSnap,
                 returned>>

\* if (authResult && authResult.status !== 'unknown') return authResult;
\* return primaryResult;
DefinitiveOrNot(result) == TRUE

Definitive(result) == result.status # "unknown"

\* The authoritative query settles.
AuthoritativeResponse(i, fetched) ==
  /\ wstate[i] = "running"
  /\ cstate[i] = "authoritative"
  /\ observed' = [observed EXCEPT ![i] = Append(@, Observation("authoritative", fetched))]
  /\ LET authResult == authoritativeResult(DomainOf(items[i]), authUrl[i], fetched)
     IN IF fetched.ok /\ Definitive(authResult)
        THEN Return(i, authResult)
        ELSE Return(i, primaryResult[i])
  /\ UNCHANGED <<fallback, clock, ianaCache, primaryResult, lookupNow,
                 authUrl, sent, lookups, invalidated>>
  /\ UNCHANGED <<mode, items, concArg, concurrency, pc, index, active,
                 results, callOrder, callbacks, raceSnap, raceResult, allSnap,
                 returned>>

NextBatch ==
  \/ CallEmpty /\ StartCheckDomain /\ UNCHANGED <<interpVars, otherVars>>
  \/ CallFast /\ StartCheckDomain /\ UNCHANGED <<interpVars, otherVars>>
  \/ CallPool /\ StartCheckDomain /\ UNCHANGED <<interpVars, otherVars>>
  \/ \E i \in 1..N, fetched \in BatchFetchOutcomes,
          now \in ClockReadings(clock, MaxTicks) :
       PrimaryResponse(i, fetched, now) /\ UNCHANGED <<interpVars, otherVars>>
  \/ \E i \in 1..N, fetched \in BootstrapOutcomes :
       BootstrapResponse(i, fetched) /\ UNCHANGED <<interpVars, otherVars>>
  \/ \E i \in 1..N, fetched \in BatchFetchOutcomes :
       AuthoritativeResponse(i, fetched) /\ UNCHANGED <<interpVars, otherVars>>
  \/ \E i \in 1..N : ThenBatch(i) /\ UNCHANGED <<rdapVars, interpVars, otherVars>>
  \/ \E i \in 1..N : Finally(i) /\ UNCHANGED <<rdapVars, interpVars, otherVars>>
  \/ ResumeLoop /\ StartCheckDomain /\ UNCHANGED <<interpVars, otherVars>>
  \/ AwaitAll /\ UNCHANGED <<rdapVars, interpVars, otherVars>>
  \/ AllResolve /\ UNCHANGED <<rdapVars, interpVars, otherVars>>
  \/ FastResolve /\ UNCHANGED <<rdapVars, interpVars, otherVars>>

SpecBatch == InitBatch /\ [][NextBatch]_vars

\* ------------------------------------------------------------------------
\* One checkDomain call, with every kind of answer: the check command given
\* a single domain (runConcurrent([domain], 1, checkDomain)), in a process
\* whose bootstrap cache is empty or was filled by an earlier call.
\* ------------------------------------------------------------------------
\* responseTimeMs of the primary and of the authoritative answer.
PrimaryMs == 40

AuthoritativeMs == 90

CheckStatuses == {200, 400, 404, 500}

CheckBodies == JsonValues

\* What fetchJson can yield for one query: a transport failure (abort on
\* timeout included) or any status with any body, redirected or not.
CheckFetchOutcomes(ms) ==
  {FetchFailed}
    \cup { FetchResult(st, json, redirected, ms) :
             st \in CheckStatuses, json \in CheckBodies, redirected \in BOOLEAN }

CheckBootstrapOutcomes ==
  {BootstrapFailed, BootstrapFetched(IanaDocument), BootstrapFetched(EmptyDocument)}

\* The cache as an earlier lookup at time 0 left it.
WarmCache == CacheEntry(0, IanaDocument)

SingleDomainLists == { <<d>> : d \in 1..3 }

InitCheck ==
  /\ PoolInit({"batch"}, SingleDomainLists, {1}, NoResult)
  /\ fallback \in BOOLEAN
  /\ clock = 0
  /\ ianaCache \in {NoCache, WarmCache}
  /\ cstate = [i \in 1..Len(items) |-> "idle"]
  /\ primaryResult = [i \in 1..Len(items) |-> NoResult]
  /\ lookupNow = [i \in 1..Len(items) |-> 0]
  /\ authUrl = [i \in 1..Len(items) |-> NoUrl]
  /\ sent = [i \in 1..Len(items) |-> <<>>]
  /\ observed = [i \in 1..Len(items) |-> <<>>]
  /\ lookups = <<>>
  /\ invalidated = FALSE
  /\ InterpIdle
  /\ OtherIdle

NextCheck ==
  \/ CallFast /\ StartCheckDomain /\ UNCHANGED <<interpVars, otherVars>>
  \/ \E i \in 1..N, fetched \in CheckFetchOutcomes(PrimaryMs),
          now \in ClockReadings(clock, MaxTicks) :
       PrimaryResponse(i, fetched, now) /\ UNCHANGED <<interpVars, otherVars>>
  \/ \E i \in 1..N, fetched \in CheckBootstrapOutcomes :
       BootstrapResponse(i, fetched) /\ UNCHANGED <<interpVars, otherVars>>
  \/ \E i \in 1..N, fetched \in CheckFetchOutcomes(AuthoritativeMs) :
       AuthoritativeResponse(i, fetched) /\ UNCHANGED <<interpVars, otherVars>>
  \/ FastResolve /\ UNCHANGED <<rdapVars, interpVars, otherVars>>

SpecCheck == InitCheck /\ [][NextCheck]_vars

\* Every request eventually responds or is aborted by its timeout, and the
\* event loop runs every reaction that is ready.
SpecCheckLive == SpecCheck /\ WF_vars(NextCheck)

\* ------------------------------------------------------------------------
\* The check command: validation, the batch, the summary and the exit code
\* (stdin is a terminal, so the domains are the arguments)
\* ------------------------------------------------------------------------
\* The domains given: example.COM, example.zz and the invalid -bad.com, in
\* any order and number.
CommandItems == {1, 2, 4}

CommandLists ==
  UNION { [1..n -> CommandItems] : n \in 0..MaxDomains }

\* options.concurrency || Math.min(10, allDomains.length), option 0 standing
\* for an option not given.
CommandConcurrency(option, len) ==
  IF option # 0 THEN option ELSE IF len < 10 THEN len ELSE 10

InitCommand ==
  /\ PoolInit({"batch"}, CommandLists,
              { CommandConcurrency(option, Len(items)) : option \in 0..MaxDomains },
              NoResult)
  /\ fallback \in BOOLEAN
  /\ clock = 0
  /\ ianaCache = NoCache
  /\ cstate = [i \in 1..Len(items) |-> "idle"]
  /\ primaryResult = [i \in 1..Len(items) |-> NoResult]
  /\ lookupNow = [i \in 1..Len(items) |-> 0]
  /\ authUrl = [i \in 1..Len(items) |-> NoUrl]
  /\ sent = [i \in 1..Len(items) |-> <<>>]
  /\ observed = [i \in 1..Len(items) |-> <<>>]
  /\ lookups = <<>>
  /\ invalidated = FALSE
  /\ InterpIdle
  /\ ValidIdle
  /\ ScanIdle
  /\ cmdPc = "called"
  /\ cmdResults = <<>>
  /\ overallStatus = "available"
  /\ hasErrors = FALSE
  /\ exitCode = -1

\* (variant: only the first domain is validated)
FirstValid == N > 0 /\ isValidDomain(NameOf(DomainOf(items[1])))

\* invalidDomains.length === 0
AllValid == \A i \in 1..N : isValidDomain(NameOf(DomainOf(items[i])))

\* check finds no domain or an invalid one: process.exit(2).
RejectInput ==
  /\ cmdPc = "called"
  /\ N = 0 \/ ~AllValid
  /\ cmdPc' = "exited"
  /\ exitCode' = 2
  /\ UNCHANGED <<cmdResults, overallStatus, hasErrors>>

\* check passes the validation and calls runConcurrent, in the same
\* synchronous run.
StartBatch ==
  /\ cmdPc = "called"
  /\ N > 0
  /\ AllValid
  /\ cmdPc' = "running"
  /\ UNCHANGED <<cmdResults, overallStatus, hasErrors, exitCode>>

\* check resumes with the results: the summary, the output, process.exit.
\* (A run of the command is far shorter than the hour a cache entry lives,
\* so in this specification every reading of the clock is the same.)
Finish ==
  /\ cmdPc = "running"
  /\ pc = "resolved"
  /\ cmdResults' = returned
  /\ overallStatus' = Summary(returned).overallStatus
  /\ hasErrors' = Summary(returned).hasErrors
  /\ exitCode' = ExitCodeOf(Summary(returned).overallStatus)
  /\ cmdPc' = "exited"

NextCommand ==
  \/ RejectInput /\ UNCHANGED <<poolVars, rdapVars, interpVars, validVars, scanVars>>
  \/ StartBatch /\ CallFast /\ StartCheckDomain
       /\ UNCHANGED <<interpVars, validVars, scanVars>>
  \/ StartBatch /\ CallPool /\ StartCheckDomain
       /\ UNCHANGED <<interpVars, validVars, scanVars>>
  \/ \E i \in 1..N, fetched \in BatchFetchOutcomes, now \in {clock} :
       PrimaryResponse(i, fetched, now) /\ UNCHANGED <<interpVars, otherVars>>
  \/ \E i \in 1..N, fetched \in BootstrapOutcomes :
       BootstrapResponse(i, fetched) /\ UNCHANGED <<interpVars, otherVars>>
  \/ \E i \in 1..N, fetched \in BatchFetchOutcomes :
       AuthoritativeResponse(i, fetched) /\ UNCHANGED <<interpVars, otherVars>>
  \/ \E i \in 1..N : ThenBatch(i) /\ UNCHANGED <<rdapVars, interpVars, otherVars>>
  \/ \E i \in 1..N : Finally(i) /\ UNCHANGED <<rdapVars, interpVars, otherVars>>
  \/ ResumeLoop /\ StartCheckDomain /\ UNCHANGED <<interpVars, otherVars>>
  \/ AwaitAll /\ UNCHANGED <<rdapVars, interpVars, otherVars>>
  \/ AllResolve /\ UNCHANGED <<rdapVars, interpVars, otherVars>>
  \/ FastResolve /\ UNCHANGED <<rdapVars, interpVars, otherVars>>
  \/ Finish /\ UNCHANGED <<poolVars, rdapVars, interpVars, validVars, scanVars>>

SpecCommand == InitCommand /\ [][NextCommand]_vars

\* ------------------------------------------------------------------------
\* The bootstrap directory used directly: calls of getAuthoritativeRdapUrl
\* (which may overlap) and of clearIanaCache, as a library consumer makes them
\* ------------------------------------------------------------------------
\* No pool call is under way.
PoolIdle ==
  /\ mode = "batch"
  /\ items = <<>>
  /\ concArg = 1
  /\ concurrency = 1
  /\ pc = "start"
  /\ index = 0
  /\ active = <<>>
  /\ wstate = <<>>
  /\ outcome = <<>>
  /\ reactions = <<>>
  /\ wvalue = <<>>
  /\ results = <<>>
  /\ callOrder = <<>>
  /\ callbacks = <<>>
  /\ raceSnap = {}
  /\ raceResult = "none"
  /\ allSnap = {}
  /\ returned = <<>>

MaxLookups == 3

IanaDomains == { <<"example", "COM">>, <<"www", "example", "Org">>,
                 <<"localhost">> }

IanaFetchOutcomes ==
  {BootstrapFailed, BootstrapFetched(IanaDocument), BootstrapFetched(RevisedDocument)}

\* What the call found in ianaCache when it read the clock.
CacheSeen(cache, now) ==
  IF ~cache.present THEN "absent"
  ELSE IF CacheValid(cache, now) THEN "valid"
  ELSE "expired"

\* One call: its argument, the now it read (-1: it read no clock), what it
\* found in the cache, whether it issued a fetch and how that ended, the
\* mapping it answered from and the URL it returned.
Lookup(domain, now, saw, state, fetch, ok, data, url) ==
  [domain |-> domain, now |-> now, saw |-> saw, state |-> state,
   fetch |-> fetch, ok |-> ok, data |-> data, url |-> url]

InitIana ==
  /\ PoolIdle
  /\ InterpIdle
  /\ OtherIdle
  /\ fallback = FALSE
  /\ clock = 0
  /\ ianaCache = NoCache
  /\ cstate = <<>>
  /\ primaryResult = <<>>
  /\ lookupNow = <<>>
  /\ authUrl = <<>>
  /\ sent = <<>>
  /\ observed = <<>>
  /\ lookups = <<>>
  /\ invalidated = FALSE

\* getAuthoritativeRdapUrl(domain), from the call to its return or to the
\* await of the bootstrap fetch; now is what Date.now() returns in
\* getIanaBootstrap.
getAuthoritativeRdapUrl(domain, now) ==
  /\ Len(lookups) < MaxLookups
  /\ LET tld == extractTld(domain)
     IN IF tld = NoTld
        THEN /\ now = clock
             /\ lookups' = Append(lookups,
                  Lookup(domain, -1, "none", "done", FALSE, FALSE,
                         EmptyDocument, NoUrl))
        ELSE IF CacheValid(ianaCache, now)
        THEN lookups' = Append(lookups,
               Lookup(domain, now, "valid", "done", FALSE, FALSE,
                      ianaCache.data, FirstUrl(ianaCache.data, tld)))
        ELSE lookups' = Append(lookups,
               Lookup(domain, now, CacheSeen(ianaCache, now), "fetching", TRUE,
                      FALSE, EmptyDocument, NoUrl))
  /\ clock' = now
  /\ invalidated' = IF extractTld(domain) = NoTld THEN invalidated ELSE FALSE
  /\ UNCHANGED <<fallback, ianaCache, cstate, primaryResult, lookupNow,
                 authUrl, sent, observed>>

\* (variant: a failed refetch answers from whatever the cache still holds)
StaleUrl(cache, tld) ==
  IF cache.present THEN FirstUrl(cache.data, tld) ELSE NoUrl

\* What getAuthoritativeRdapUrl returns when getIanaBootstrap threw: its
\* catch returns null.
UrlAfterFailedFetch(cache, tld) == NoUrl

\* (variant: a fetch that finds an entry already stored keeps it)
StoreIfAbsent(cache, now, data) ==
  IF cache.present THEN cache ELSE CacheEntry(now, data)

\* ianaCache = { timestamp: now, data }: whatever the cache holds by then is
\* replaced.
StoreFetched(cache, now, data) == CacheEntry(now, data)

\* (variant: a failed fetch empties the cache)
DropOnFailure(cache) == NoCache

\* fetchIanaBootstrap threw: getIanaBootstrap is left before the assignment
\* to ianaCache.
AfterFailedFetch(cache) == cache

\* The bootstrap fetch of call k settles: fetchIanaBootstrap throws (network
\* error, abort, non-OK status) and getAuthoritativeRdapUrl returns null, or
\* getIanaBootstrap stores the data and the URL is looked up in it.
BootstrapSettles(k, fetched) ==
  /\ lookups[k].state = "fetching"
  /\ IF fetched.ok
     THEN /\ ianaCache' = StoreFetched(ianaCache, lookups[k].now, fetched.data)
          /\ lookups' = [lookups EXCEPT ![k] =
               [@ EXCEPT !.state = "done", !.ok = TRUE, !.data = fetched.data,
                         !.url = FirstUrl(fetched.data,
                                          extractTld(lookups[k].domain))]]
     ELSE /\ ianaCache' = AfterFailedFetch(ianaCache)
          /\ lookups' = [lookups EXCEPT ![k] =
               [@ EXCEPT !.state = "done",
                         !.url = UrlAfterFailedFetch(ianaCache,
                                   extractTld(lookups[k].domain))]]
  /\ UNCHANGED <<fallback, clock, cstate, primaryResult, lookupNow, authUrl,
                 sent, observed, invalidated>>

\* clearIanaCache(): ianaCache = null
clearIanaCache ==
  /\ ianaCache' = NoCache
  /\ invalidated' = TRUE
  /\ UNCHANGED <<fallback, clock, cstate, primaryResult, lookupNow, authUrl,
                 sent, observed, lookups>>

NextIana ==
  \/ \E domain \in IanaDomains, now \in ClockReadings(clock, MaxTicks) :
       getAuthoritativeRdapUrl(domain, now) /\ UNCHANGED <<poolVars, interpVars, otherVars>>
  \/ \E k \in 1..Len(lookups), fetched \in IanaFetchOutcomes :
       BootstrapSettles(k, fetched) /\ UNCHANGED <<poolVars, interpVars, otherVars>>
  \/ clearIanaCache /\ UNCHANGED <<poolVars, interpVars, otherVars>>

SpecIana == InitIana /\ [][NextIana]_vars

\* ------------------------------------------------------------------------
\* getAuthoritativeRdapUrl on bootstrap data of any shape: the part of the
\* function after getIanaBootstrap has returned
\* ------------------------------------------------------------------------
MaxEntries == 3

\* The entries a services list of the model is made of: groups for com
\* (listed in lower case, in upper case, without URLs), groups for org (with
\* and without URLs) and the three kinds of entries that are no group.
ScanEntries ==
  { Service(<<"com", "net">>, <<"https://a.example/", "https://a2.example/">>),
    Service(<<"COM">>, <<"https://b.example/">>),
    Service(<<"com">>, <<>>),
    Service(<<"org">>, <<"https://c.example/">>),
    Service(<<"org">>, <<>>),
    NullEntry,
    ScalarEntry,
    NoListEntry(<<"https://d.example/">>) }

ScanDocuments ==
  { [services |-> list] :
      list \in UNION { [1..n -> ScanEntries] : n \in 0..MaxEntries } }

ScanDomains ==
  { <<"example", "com">>, <<"example", "COM">>, <<"www", "example", "Org">> }

InitScan ==
  /\ PoolIdle
  /\ RdapIdle
  /\ InterpIdle
  /\ ValidIdle
  /\ CmdIdle
  /\ sDomain \in ScanDomains
  /\ sData \in ScanDocuments
  /\ sUrl = NoUrl
  /\ sPc = "loaded"

\* const service = bootstrap.services?.find(...) and the return, with the
\* tld that extractTld gave before the bootstrap data was awaited.
FindInBootstrap ==
  /\ sPc = "loaded"
  /\ sUrl' = FirstUrl(sData, extractTld(sDomain))
  /\ sPc' = "returned"
  /\ UNCHANGED <<sDomain, sData>>

NextScan ==
  FindInBootstrap /\ UNCHANGED <<poolVars, rdapVars, interpVars, validVars, cmdVars>>

SpecScan == InitScan /\ [][NextScan]_vars

\* ------------------------------------------------------------------------
\* isValidDomain applied to one argument
\* ------------------------------------------------------------------------
MaxLabels == 4

\* c repeated n times.
Repeat(c, n) == [i \in 1..n |-> c]

\* The labels the model's names are joined from: the empty label (a leading,
\* trailing or doubled dot), short labels with a hyphen inside, in front, at
\* the end, with an underscore, and labels around the limit of 63.
LabelShapes ==
  { <<>>, <<"a">>, <<"Z", "-", "7">>, <<"-", "a">>, <<"a", "-">>,
    <<"a", "_">>, Repeat("a", 62), Repeat("a", 63), Repeat("a", 64) }

ValidatorInputs ==
  { StringValue(Join(labels)) :
      labels \in UNION { [1..n -> LabelShapes] : n \in 1..MaxLabels } }
    \cup { NonString(type) : type \in {"null", "undefined", "number"} }

InitValid ==
  /\ PoolIdle
  /\ RdapIdle
  /\ InterpIdle
  /\ ScanIdle
  /\ CmdIdle
  /\ vDomain \in ValidatorInputs
  /\ vResult = "none"

\* isValidDomain(vDomain) returns.
Validate ==
  /\ vResult = "none"
  /\ vResult' = IF isValidDomain(vDomain) THEN "true" ELSE "false"
  /\ UNCHANGED vDomain

NextValid ==
  Validate /\ UNCHANGED <<poolVars, rdapVars, interpVars, scanVars, cmdVars>>

SpecValid == InitValid /\ [][NextValid]_vars

\* ------------------------------------------------------------------------
\* One response through fetchJson's parsing and interpretRdapResponse
\* ------------------------------------------------------------------------
HttpStatuses == {200, 301, 400, 404, 500}

InitInterp ==
  /\ PoolIdle
  /\ RdapIdle
  /\ OtherIdle
  /\ iStatus \in HttpStatuses
  /\ iContentJson \in BOOLEAN
  /\ iRaw \in RawBodies
  /\ iJson = JsonNull
  /\ iResult = [status |-> "none", errorCode |-> Absent]
  /\ iPc = "fetched"

\* fetchJson reads and parses the body.
Parse ==
  /\ iPc = "fetched"
  /\ iJson' = ParseBody(iContentJson, iRaw)
  /\ iPc' = "parsed"
  /\ UNCHANGED <<iStatus, iContentJson, iRaw, iResult>>

\* checkViaRdapOrg / checkViaAuthoritative interpret the fetch result.
Interpret ==
  /\ iPc = "parsed"
  /\ iResult' = interpretRdapResponse(iStatus, iJson)
  /\ iPc' = "interpreted"
  /\ UNCHANGED <<iStatus, iContentJson, iRaw, iJson>>

NextInterp ==
  \/ Parse /\ UNCHANGED <<poolVars, rdapVars, otherVars>>
  \/ Interpret /\ UNCHANGED <<poolVars, rdapVars, otherVars>>

SpecInterp == InitInterp /\ [][NextInterp]_vars

\* ------------------------------------------------------------------------
\* Properties of the pool
\* ------------------------------------------------------------------------
Max(a, b) == IF a >= b THEN a ELSE b

Count(seq, x) == Cardinality({ k \in 1..Len(seq) : seq[k] = x })

\* The workers that have been started and have not settled.
InFlight == { i \in 1..N : wstate[i] = "running" }

Completed == pc \in {"resolved", "rejected"}

AllSucceed == \A i \in 1..N : outcome[i] # "fail"

\* C1: runConcurrent, all workers succeeding: the returned array has the
\* length of the input and results[i] is the value the worker produces for
\* items[i], for every item list, concurrency and completion order.
C1_ResultsInInputOrder ==
  (mode = "batch" /\ pc = "resolved" /\ AllSucceed)
    => /\ Len(returned) = N
       /\ \A i \in 1..N : returned[i] = WorkerValue(items[i])

\* C2: in both modes the number of workers started and not yet settled never
\* exceeds max(1, concurrency).
C2_InFlightBounded == Cardinality(InFlight) <= Max(1, concArg)

\* C2 witness: the pool is full (as many workers in flight as the limit
\* allows, more than one) while items are still queued.
C2_Witness ==
  /\ pc = "race"
  /\ concArg >= 2
  /\ Cardinality(InFlight) = concArg
  /\ index < N

\* What a strictly sequential run (one worker at a time, in input order)
\* yields: the pooled loop leaves the slot of an undefined item empty, the
\* single-item call goes through Promise.all(items.map(worker)).
SequentialResults ==
  [i \in 1..N |-> IF N > 1 /\ items[i] = Undefined THEN Undefined
                  ELSE WorkerValue(items[i])]

IndexSeq == [i \in 1..N |-> i]

SucceededInOrder == SelectSeq(IndexSeq, LAMBDA i : outcome[i] = "ok")

SequentialCallbacks ==
  [k \in 1..Len(SucceededInOrder) |->
     <<WorkerValue(items[SucceededInOrder[k]]), items[SucceededInOrder[k]]>>]

\* A sequential run that rejected stopped at the first failing worker.
StoppedAtFirstFailure ==
  /\ callOrder # <<>>
  /\ \A k \in 1..Len(callOrder) :
       outcome[callOrder[k]] = (IF k = Len(callOrder) THEN "fail" ELSE "ok")

\* C3: with concurrency <= 0 both pool functions behave as with
\* concurrency = 1: the limit in force is 1, at most one worker is in flight,
\* and the results (batch) and the callbacks (streaming) are those of the
\* sequential run, which is also what concurrency = 1 gives.
C3_NonPositiveActsAsOne ==
  concArg <= 1 =>
    /\ pc # "start" /\ N > 0 => concurrency = 1
    /\ Cardinality(InFlight) <= 1
    /\ (mode = "batch" /\ pc = "resolved") => returned = SequentialResults
    /\ (mode = "batch" /\ pc = "rejected") => StoppedAtFirstFailure
    /\ (mode = "streaming" /\ pc = "resolved") => callbacks = SequentialCallbacks

\* C3 witness: a batch call with concurrency <= 0 over several items has
\* resolved after every worker succeeded.
C3_Witness ==
  /\ concArg <= 0
  /\ mode = "batch"
  /\ pc = "resolved"
  /\ N >= 2
  /\ \A i \in 1..N : outcome[i] = "ok"

\* C4: runConcurrent invokes the worker exactly once for each input index
\* before the call completes, whatever the outcome of the other workers.
C4_EveryItemDispatchedOnce ==
  (mode = "batch" /\ Completed) => \A i \in 1..N : Count(callOrder, i) = 1

\* C5: runConcurrent completes only once every worker it started has
\* settled, and a worker failure is recorded, not re-thrown: the call never
\* rejects, and never returns while a worker is in flight.
C5_CompletesAfterAllSettled ==
  mode = "batch" => /\ pc # "rejected"
                    /\ pc = "resolved" => InFlight = {}

\* C6: runConcurrentStreaming isolates worker failures: the call resolves,
\* every item has been dispatched, onResult has been invoked exactly once for
\* each item whose worker succeeded and never for one whose worker rejected.
C6_StreamingIsolatesFailures ==
  mode = "streaming" =>
    /\ pc # "rejected"
    /\ pc = "resolved" =>
         \A i \in 1..N :
           /\ Count(callOrder, i) = 1
           /\ outcome[i] \in {"ok", "fail"}
           /\ Count(callbacks, <<WorkerValue(items[i]), items[i]>>)
                = (IF outcome[i] = "ok" THEN 1 ELSE 0)

\* ------------------------------------------------------------------------
\* Properties of the response interpretation
\* ------------------------------------------------------------------------
\* C9: an HTTP 200 response is classified registered even when its body is
\* empty, the JSON value null, or unparseable (all of which fetchJson turns
\* into json = null): interpretRdapResponse(200, null) yields registered.
C9_Status200NullBodyRegistered ==
  (iPc = "interpreted" /\ iStatus = 200
     /\ iRaw \in {RawEmpty, RawGarbage, RawJson(JsonNull)})
    => iResult.status = "registered"

\* C10: for HTTP 200 with a parsed body (one whose JSON parsed to a value
\* other than null, which is C9's case) the result is available with
\* errorCode 404 exactly when the body carries a numeric errorCode equal to
\* 404, and registered with no errorCode for every other body.
C10_Status200ParsedBody ==
  (iPc = "interpreted" /\ iStatus = 200 /\ iRaw.text = "json"
     /\ iRaw.value # JsonNull)
    => IF iRaw.value = JsonObject(NumberMember(404))
       THEN iResult = [status |-> "available", errorCode |-> Some(404)]
       ELSE iResult = [status |-> "registered", errorCode |-> Absent]

\* ------------------------------------------------------------------------
\* Properties of a batch of checkDomain calls
\* ------------------------------------------------------------------------
RdapQueries(i) ==
  { k \in 1..Len(observed[i]) :
      observed[i][k].kind \in {"primary", "authoritative"} }

DefinitiveAnswers(i) ==
  { k \in RdapQueries(i) :
      observed[i][k].ok /\ observed[i][k].status \in {"available", "registered"} }

\* The status the domain's own answers give it: that of the first definitive
\* answer among its own queries (primary, then authoritative), else unknown.
OwnStatus(i) ==
  IF DefinitiveAnswers(i) = {} THEN "unknown"
  ELSE observed[i][CHOOSE k \in DefinitiveAnswers(i) :
                     \A m \in DefinitiveAnswers(i) : k <= m].status

\* A failing domain: every RDAP query made for it failed at transport level,
\* or its bootstrap fetch failed.
FailedDomain(i) ==
  \/ \A k \in RdapQueries(i) : ~observed[i][k].ok
  \/ \E k \in 1..Len(observed[i]) :
       observed[i][k].kind = "bootstrap" /\ ~observed[i][k].ok

\* C7: whatever requests time out or fail, runConcurrent(domains, c,
\* checkDomain) resolves with exactly one CheckResult per domain, in input
\* order; a failing domain has status unknown, and every domain has the status
\* its own answers give it, whatever happened to the other domains.
C7_BatchIsolatesFailures ==
  /\ pc # "rejected"
  /\ pc = "resolved" =>
       /\ Len(returned) = N
       /\ \A i \in 1..N :
            /\ returned[i].domain = DomainOf(items[i])
            /\ returned[i].status = OwnStatus(i)
            /\ FailedDomain(i) => returned[i].status = "unknown"

\* C7 witness: a pooled batch has resolved in which one domain failed and
\* another got a definitive answer.
C7_Witness ==
  /\ pc = "resolved"
  /\ N >= 2
  /\ concurrency < N
  /\ \E i \in 1..N : FailedDomain(i)
  /\ \E i \in 1..N : ~FailedDomain(i) /\ returned[i].status = "registered"

PrimaryFailed(i) == Len(observed[i]) >= 1 /\ ~observed[i][1].ok

\* C8: a checkDomain call whose primary query timed out or failed at
\* transport level, and which got no definitive authoritative answer, returns
\* (it does not reject) status unknown with no httpStatus and
\* responseTimeMs = 0.
C8_TransportFailureIsUnknown ==
  \A i \in 1..N :
    (cstate[i] = "done" /\ PrimaryFailed(i) /\ DefinitiveAnswers(i) = {})
      => /\ outcome[i] = "ok"
         /\ wvalue[i].status = "unknown"
         /\ wvalue[i].httpStatus = Absent
         /\ wvalue[i].responseTimeMs = 0

\* C8 witness: a call has returned whose primary query failed and whose
\* authoritative query was answered, inconclusively.
C8_Witness ==
  \E i \in 1..N :
    /\ cstate[i] = "done"
    /\ PrimaryFailed(i)
    /\ \E k \in RdapQueries(i) :
         /\ observed[i][k].kind = "authoritative"
         /\ observed[i][k].ok
         /\ observed[i][k].status = "unknown"

\* ------------------------------------------------------------------------
\* Properties of one checkDomain call
\* ------------------------------------------------------------------------
Done(i) == cstate[i] = "done"

\* The answers to the call's RDAP queries of one kind.
Answers(i, kind) ==
  { k \in 1..Len(observed[i]) : observed[i][k].kind = kind /\ observed[i][k].ok }

\* The primary query has completed, and with which status.
PrimaryCompleted(i) == Len(observed[i]) >= 1 /\ observed[i][1].kind = "primary"

PrimaryUnknown(i) ==
  PrimaryCompleted(i) /\ observed[i][1].status \in {"unknown", "none"}

PrimaryDefinitive(i) ==
  PrimaryCompleted(i) /\ observed[i][1].status \in {"available", "registered"}

\* The errorCode a result carries for an answer classified status: none when
\* registered, 404 for an HTTP 404, else the body's numeric errorCode member.
AnswerErrorCode(f, status) ==
  IF status = "registered" THEN Absent
  ELSE IF f.status = 404 THEN Some(404)
  ELSE IF f.json.kind = "object" /\ f.json.errorCode.type = "number"
  THEN Some(f.json.errorCode.value)
  ELSE Absent

\* The CheckResult the primary answer amounts to: domain, status, httpStatus,
\* errorCode, source and responseTimeMs as the aggregator's answer gives them.
PrimaryAnswerResult(i) ==
  LET f == observed[i][1].fetched
  IN [domain |-> DomainOf(items[i]),
      status |-> IF f.ok THEN observed[i][1].status ELSE "unknown",
      httpStatus |-> IF f.ok THEN Some(f.status) ELSE Absent,
      errorCode |-> IF f.ok THEN AnswerErrorCode(f, observed[i][1].status)
                    ELSE Absent,
      source |-> IF f.ok /\ f.redirected THEN RedirectTarget ELSE "rdap.org",
      responseTimeMs |-> IF f.ok THEN f.responseTimeMs ELSE 0]

\* The call made a bootstrap lookup: it fetched the directory or was served
\* from the cache.
Lookups(i) ==
  { k \in 1..Len(observed[i]) : observed[i][k].kind = "cached" }
    \cup { k \in 1..Len(sent[i]) : sent[i][k] = "bootstrap" }

\* C11: an HTTP 404 answer is classified available with errorCode 404
\* whatever its body (null, or an object with another errorCode); a call
\* whose aggregator answers 404 returns {status available, httpStatus 404,
\* errorCode 404}, and so does one whose authoritative server answers 404.
C11_Status404IsAvailable ==
  \A i \in 1..N :
    /\ \A k \in RdapQueries(i) :
         (observed[i][k].ok /\ observed[i][k].fetched.status = 404)
           => observed[i][k].status = "available"
    /\ (Done(i) /\ \E k \in RdapQueries(i) :
                     observed[i][k].ok /\ observed[i][k].fetched.status = 404)
         => /\ outcome[i] = "ok"
            /\ wvalue[i].status = "available"
            /\ wvalue[i].httpStatus = Some(404)
            /\ wvalue[i].errorCode = Some(404)

\* C11 witness: the aggregator answered 404 with a body that carries
\* errorCode 500, and the call has returned.
C11_Witness ==
  \E i \in 1..N :
    /\ Done(i)
    /\ PrimaryCompleted(i)
    /\ observed[i][1].ok
    /\ observed[i][1].fetched.status = 404
    /\ observed[i][1].fetched.json = JsonObject(NumberMember(500))

\* The numeric errorCode member of the body as received, if it has one.
BodyErrorCode(raw) ==
  IF raw.text = "json" /\ raw.value.kind = "object"
       /\ raw.value.errorCode.type = "number"
  THEN Some(raw.value.errorCode.value)
  ELSE Absent

\* C12: for an HTTP status other than 200 and 404 the result is available
\* exactly when the body carries a numeric errorCode equal to 404; otherwise
\* it is unknown, with the body's numeric errorCode if it has one and none
\* otherwise.
C12_OtherStatusFollowsBody ==
  (iPc = "interpreted" /\ iStatus \notin {200, 404})
    => /\ iResult.status = "available" <=> BodyErrorCode(iRaw) = Some(404)
       /\ iResult.status # "available" => iResult.status = "unknown"
       /\ iResult.errorCode = BodyErrorCode(iRaw)

\* C12 witness: a 500 answer whose body carries errorCode 500 has been
\* interpreted as unknown with errorCode 500.
C12_Witness ==
  /\ iPc = "interpreted"
  /\ iStatus = 500
  /\ iRaw = RawJson(JsonObject(NumberMember(500)))
  /\ iResult = [status |-> "unknown", errorCode |-> Some(500)]

\* C13: when the primary query yields unknown and fallback is disabled, the
\* call returns the primary's unknown result after exactly one network
\* request, the primary query: no bootstrap fetch, no authoritative request.
C13_NoFallbackWhenDisabled ==
  \A i \in 1..N :
    ~fallback =>
      /\ sent[i] \in {<<>>, <<"primary">>}
      /\ Lookups(i) = {}
      /\ (Done(i) /\ PrimaryUnknown(i))
           => /\ wvalue[i] = PrimaryAnswerResult(i)
              /\ wvalue[i].status = "unknown"
              /\ sent[i] = <<"primary">>
              /\ Len(observed[i]) = 1

\* C13 witness: with fallback disabled the aggregator answered 500 for a
\* domain whose TLD the directory lists, and the call has returned.
C13_Witness ==
  \E i \in 1..N :
    /\ ~fallback
    /\ Done(i)
    /\ PrimaryUnknown(i)
    /\ observed[i][1].ok
    /\ extractTld(DomainOf(items[i])) = "com"

\* The CheckResult an authoritative answer amounts to.
AuthoritativeAnswerResult(i, k, url) ==
  LET f == observed[i][k].fetched
  IN [domain |-> DomainOf(items[i]),
      status |-> observed[i][k].status,
      httpStatus |-> Some(f.status),
      errorCode |-> AnswerErrorCode(f, observed[i][k].status),
      source |-> url,
      responseTimeMs |-> f.responseTimeMs]

DefinitiveAuthoritativeAnswers(i) ==
  { k \in Answers(i, "authoritative") :
      observed[i][k].status \in {"available", "registered"} }

\* The first URL of the first group of the mapping that lists tld.
ListedUrl(data, tld) ==
  LET groups == { g \in 1..Len(data.services) :
                    tld \in Range(data.services[g].tlds) }
  IN IF groups = {} THEN NoUrl
     ELSE data.services[CHOOSE g \in groups : \A h \in groups : g <= h].urls[1]

\* The base URL the bootstrap directory lists first for the domain's TLD
\* (the call's directory is the one the cache holds once it has returned).
DirectoryUrl(i) ==
  ListedUrl(ianaCache.data, ToLowerCase(DomainOf(items[i])[Len(DomainOf(items[i]))]))

\* C14: when the primary query yields unknown, fallback is enabled and the
\* authoritative query yields available or registered, the call returns the
\* authoritative result, with source the base URL the bootstrap directory
\* gives for the TLD.
C14_DefinitiveAuthoritativeWins ==
  \A i \in 1..N :
    (Done(i) /\ PrimaryUnknown(i) /\ fallback)
      => \A k \in DefinitiveAuthoritativeAnswers(i) :
           /\ wvalue[i] = AuthoritativeAnswerResult(i, k, DirectoryUrl(i))
           /\ wvalue[i].source # NoUrl
           /\ wvalue[i].source # "rdap.org"

\* C14 witness: the aggregator failed, the authoritative server found
\* through the directory answered 200, and the call returned registered.
C14_Witness ==
  \E i \in 1..N :
    /\ Done(i)
    /\ PrimaryUnknown(i)
    /\ \E k \in DefinitiveAuthoritativeAnswers(i) :
         observed[i][k].fetched.status = 200
    /\ wvalue[i].status = "registered"
    /\ wvalue[i].source = "https://rdap.verisign.example/com/v1/"

\* C15: the bootstrap lookup and the authoritative query are issued only
\* after the primary query has completed with status unknown; when the
\* primary status is available or registered the call returns the primary
\* result and issues no bootstrap fetch and no authoritative request.
C15_FallbackOnlyAfterUnknownPrimary ==
  \A i \in 1..N :
    /\ sent[i] # <<>> => sent[i][1] = "primary"
    /\ (Len(sent[i]) > 1 \/ Lookups(i) # {}) => PrimaryUnknown(i)
    /\ PrimaryDefinitive(i)
         => /\ Done(i)
            /\ wvalue[i] = PrimaryAnswerResult(i)
            /\ sent[i] = <<"primary">>
            /\ Lookups(i) = {}

\* C15 witness: with fallback enabled the aggregator answered definitively
\* through a redirect, and the call has returned.
C15_Witness ==
  \E i \in 1..N :
    /\ fallback
    /\ PrimaryDefinitive(i)
    /\ observed[i][1].fetched.redirected
    /\ Done(i)

\* C16: when both the primary and the authoritative query are inconclusive
\* the call returns the primary's result unchanged: httpStatus, errorCode,
\* source and responseTimeMs are the primary's, never the authoritative's.
C16_InconclusiveKeepsPrimary ==
  \A i \in 1..N :
    (Done(i) /\ PrimaryUnknown(i)
       /\ \E k \in Answers(i, "authoritative") : observed[i][k].status = "unknown")
      => wvalue[i] = PrimaryAnswerResult(i)

\* C16 witness: the aggregator answered 500 with errorCode 500 through a
\* redirect, the authoritative server answered 400 with no errorCode, and
\* the call has returned.
C16_Witness ==
  \E i \in 1..N :
    /\ Done(i)
    /\ PrimaryUnknown(i)
    /\ observed[i][1].ok
    /\ observed[i][1].fetched.status = 500
    /\ observed[i][1].fetched.json = JsonObject(NumberMember(500))
    /\ observed[i][1].fetched.redirected
    /\ \E k \in Answers(i, "authoritative") :
         /\ observed[i][k].status = "unknown"
         /\ observed[i][k].fetched.status = 400
         /\ observed[i][k].fetched.json = JsonObject(NoMember)

\* The fallback failed: the bootstrap fetch failed, or the authoritative
\* query failed at transport level, or (of a call that has returned) no
\* authoritative query was made because no URL was found for the TLD.
FallbackFailed(i) ==
  \/ \E k \in 1..Len(observed[i]) :
       observed[i][k].kind \in {"bootstrap", "authoritative"} /\ ~observed[i][k].ok
  \/ /\ fallback
     /\ PrimaryUnknown(i)
     /\ \A k \in 1..Len(sent[i]) : sent[i][k] # "authoritative"

\* C17: fallback failures are silent: the call has not rejected, and when no
\* authoritative URL is found for the TLD, or the bootstrap fetch fails, or
\* the authoritative query fails at transport level, it returns the original
\* primary (unknown) result.
C17_FallbackFailuresSilent ==
  \A i \in 1..N :
    /\ outcome[i] # "fail"
    /\ wstate[i] # "rejected"
    /\ (Done(i) /\ FallbackFailed(i))
         => /\ outcome[i] = "ok"
            /\ wvalue[i] = PrimaryAnswerResult(i)
            /\ wvalue[i].status = "unknown"

\* C17 witnesses: a call has returned after the directory had no URL for its
\* TLD; after its bootstrap fetch failed; after its authoritative query
\* failed.
C17_Witness ==
  \E i \in 1..N :
    /\ Done(i)
    /\ \E k \in 1..Len(observed[i]) :
         observed[i][k].kind = "authoritative" /\ ~observed[i][k].ok
    /\ observed[i][1].ok

C17_WitnessNoUrl ==
  \E i \in 1..N :
    /\ Done(i)
    /\ \E k \in 1..Len(observed[i]) :
         observed[i][k].kind = "bootstrap" /\ observed[i][k].ok
    /\ \A k \in 1..Len(sent[i]) : sent[i][k] # "authoritative"

C17_WitnessBootstrapFailed ==
  \E i \in 1..N :
    /\ Done(i)
    /\ \E k \in 1..Len(observed[i]) :
         observed[i][k].kind = "bootstrap" /\ ~observed[i][k].ok

\* The call and its requests once it has returned: one primary query, at
\* most one authoritative query, at most one bootstrap lookup, every request
\* answered, one result.
OneResult(i) ==
  /\ outcome[i] = "ok"
  /\ wvalue[i].status \in {"available", "registered", "unknown"}
  /\ Count(sent[i], "primary") = 1
  /\ Count(sent[i], "authoritative") <= 1
  /\ Cardinality(Lookups(i)) <= 1
  /\ Count(sent[i], "bootstrap") <= 1
  /\ Len(observed[i]) = Len(sent[i]) + Cardinality(Lookups(i))
                          - Count(sent[i], "bootstrap")

\* Once returned, a call issues nothing more and its result stays.
StaysDone(i) ==
  Done(i) => /\ cstate'[i] = "done"
             /\ wvalue'[i] = wvalue[i]
             /\ sent'[i] = sent[i]
             /\ observed'[i] = observed[i]

\* C18: provided every request eventually responds or is aborted, every
\* checkDomain call eventually reaches Done, having produced exactly one
\* CheckResult after one or two RDAP queries and at most one bootstrap
\* lookup; once Done it issues no further request.
C18_CallTerminatesWithOneResult ==
  /\ <>(N > 0 /\ \A i \in 1..N : Done(i))
  /\ [](\A i \in 1..N : Done(i) => OneResult(i))
  /\ [][\A i \in 1..N : StaysDone(i)]_vars

\* C18 witness: a call has returned after two RDAP queries and one bootstrap
\* fetch.
C18_Witness ==
  \E i \in 1..N :
    /\ Done(i)
    /\ sent[i] = <<"primary", "bootstrap", "authoritative">>
    /\ Len(observed[i]) = 3

\* ------------------------------------------------------------------------
\* Properties of the bootstrap cache
\* ------------------------------------------------------------------------
OneHourMs == 3600000

\* A call of getAuthoritativeRdapUrl starts in this step; it is the last of
\* lookups afterwards, and clock' is the time it starts at.
LookupStarts == Len(lookups') = Len(lookups) + 1

Started == lookups'[Len(lookups')]

LastLabel(domain) == ToLowerCase(domain[Len(domain)])

\* C19: a lookup that starts while the cache holds an entry (stored by an
\* earlier successful fetch) with now - fetchedAt < 1 hour is served from
\* that entry and issues no fetch, whatever TLD it asks for: it returns at
\* once with the URL the cached mapping lists for its TLD, and the entry
\* stays as it is.
C19_FreshEntryServesEveryTld ==
  [][(LookupStarts /\ ianaCache.present
        /\ clock' - ianaCache.timestamp < OneHourMs)
       => /\ ~Started.fetch
          /\ Started.state = "done"
          /\ Len(Started.domain) > 1
               => Started.url = ListedUrl(ianaCache.data, LastLabel(Started.domain))
          /\ ianaCache' = ianaCache]_vars

\* C19 witness: a first lookup fetched the directory for one TLD; a later
\* lookup for another TLD, started half an hour after it, was answered with
\* that TLD's URL without a fetch.
C19_Witness ==
  /\ Len(lookups) >= 2
  /\ lookups[1].fetch /\ lookups[1].ok
  /\ lookups[2].state = "done"
  /\ ~lookups[2].fetch
  /\ LastLabel(lookups[2].domain) # LastLabel(lookups[1].domain)
  /\ lookups[2].now = lookups[1].now + ClockStepMs
  /\ lookups[2].url # NoUrl

\* Call k's bootstrap fetch succeeds in this step.
FetchSucceeds(k) ==
  /\ k <= Len(lookups)
  /\ lookups[k].state = "fetching"
  /\ lookups'[k].state = "done"
  /\ lookups'[k].ok

\* C20: a lookup that starts when the cached entry is one hour old or older
\* treats it as absent and issues a fresh fetch; a fetch that succeeds
\* replaces the whole entry: mapping and timestamp are those of that lookup.
C20_ExpiredEntryIsRefetched ==
  [][/\ (LookupStarts /\ Len(Started.domain) > 1 /\ ianaCache.present
           /\ clock' - ianaCache.timestamp >= OneHourMs)
          => /\ Started.fetch
             /\ Started.state = "fetching"
             /\ Started.saw = "expired"
     /\ \A k \in 1..MaxLookups :
          FetchSucceeds(k)
            => /\ ianaCache'.present
               /\ ianaCache'.data = lookups'[k].data
               /\ ianaCache'.timestamp = lookups[k].now
               /\ lookups'[k].url = ListedUrl(lookups'[k].data,
                                              LastLabel(lookups[k].domain))]_vars

\* C20 witness: a lookup that found an entry exactly one hour old has
\* fetched the revised document, which the cache now holds under the time
\* that lookup started at.
C20_Witness ==
  \E k \in 1..Len(lookups) :
    /\ lookups[k].saw = "expired"
    /\ lookups[k].state = "done"
    /\ lookups[k].ok
    /\ lookups[k].now = OneHourMs
    /\ lookups[k].data = RevisedDocument
    /\ ianaCache = [present |-> TRUE, timestamp |-> OneHourMs,
                    data |-> RevisedDocument]


\* ------------------------------------------------------------------------
\* Properties of the bootstrap directory: invalidation, failed refetch
\* ------------------------------------------------------------------------
\* The call that starts in this step names a top-level label, so it consults
\* the directory.
StartedWithTld == Len(Started.domain) > 1

\* C21: clearIanaCache() forces a fetch on the next lookup regardless of TTL:
\* the first lookup that starts after clearIanaCache() has returned issues a
\* bootstrap fetch.
C21_ClearForcesFetch ==
  [][(LookupStarts /\ invalidated /\ StartedWithTld) => Started.fetch]_vars

\* C22: when the cached entry is expired or absent and the refetch fails,
\* the lookup returns null; it never answers from the stale mapping.
C22_NoStaleFallback ==
  \A k \in 1..Len(lookups) :
    (/\ lookups[k].state = "done"
     /\ lookups[k].saw \in {"absent", "expired"}
     /\ ~lookups[k].ok)
      => lookups[k].url = NoUrl

\* A lookup found the entry expired, its refetch failed and it returned null
\* although the entry still in the cache lists a server for its TLD.
C22_Witness ==
  \E k \in 1..Len(lookups) :
    /\ lookups[k].state = "done"
    /\ lookups[k].saw = "expired"
    /\ lookups[k].fetch
    /\ ~lookups[k].ok
    /\ lookups[k].url = NoUrl
    /\ ianaCache.present
    /\ ListedUrl(ianaCache.data, LastLabel(lookups[k].domain)) # NoUrl

\* ------------------------------------------------------------------------
\* Properties of the scan of the bootstrap data
\* ------------------------------------------------------------------------
\* The entry is a group with at least one URL.
WellFormedGroup(entry) == entry.kind = "group" /\ Len(entry.urls) > 0

\* The group lists the TLD, letter case ignored / in exactly this spelling.
ListsIgnoringCase(entry, tld) ==
  entry.kind = "group" /\ tld \in { ToLowerCase(t) : t \in Range(entry.tlds) }

ListsExactly(entry, tld) ==
  entry.kind = "group" /\ tld \in Range(entry.tlds)

\* The first of a non-empty set of positions.
First(positions) == CHOOSE g \in positions : \A h \in positions : g <= h

\* C23: TLD matching is case-insensitive on both sides: in a document whose
\* entries are all groups with URLs, the first group that lists the domain's
\* last label, compared ignoring case, is matched and its first URL returned.
C23_MatchIgnoresCase ==
  (/\ sPc = "returned"
   /\ \A g \in 1..Len(sData.services) : WellFormedGroup(sData.services[g]))
    => LET groups == { g \in 1..Len(sData.services) :
                         ListsIgnoringCase(sData.services[g], LastLabel(sDomain)) }
       IN groups # {} => sUrl = sData.services[First(groups)].urls[1]

\* C24: getAuthoritativeRdapUrl returns the first URL of the first group, in
\* document order, whose TLD list contains the domain's TLD, and null when
\* no group does or when that first group has no URLs.
C24_FirstUrlOfFirstGroup ==
  sPc = "returned"
    => LET groups == { g \in 1..Len(sData.services) :
                         ListsExactly(sData.services[g], LastLabel(sDomain)) }
       IN sUrl = IF groups = {} THEN NoUrl
                 ELSE IF Len(sData.services[First(groups)].urls) = 0 THEN NoUrl
                 ELSE sData.services[First(groups)].urls[1]

\* The entry is malformed and does not list the TLD: null, not an array,
\* without a TLD list, or a group for other TLDs that has no URLs.
MalformedEntry(entry, tld) ==
  \/ entry.kind \in {"null", "scalar", "nolist"}
  \/ /\ entry.kind = "group"
     /\ Len(entry.urls) = 0
     /\ ~ListsIgnoringCase(entry, tld)

\* C25: malformed entries do not abort the scan: when only malformed entries
\* precede a group with URLs that lists the queried TLD, that group's first
\* URL is returned.
C25_MalformedEntriesSkipped ==
  sPc = "returned"
    => \A g \in 1..Len(sData.services) :
         (/\ WellFormedGroup(sData.services[g])
          /\ ListsExactly(sData.services[g], LastLabel(sDomain))
          /\ \A h \in 1..(g - 1) :
               MalformedEntry(sData.services[h], LastLabel(sDomain)))
           => sUrl = sData.services[g].urls[1]

\* ------------------------------------------------------------------------
\* Properties of isValidDomain
\* ------------------------------------------------------------------------
\* The positions of the dots of a string, and the positions that bound its
\* labels: before the first character, each dot, after the last character.
Dots(s) == { i \in 1..Len(s) : s[i] = "." }

Bounds(s) == {0} \cup Dots(s) \cup {Len(s) + 1}

\* The labels of s, each as the pair of bounds it lies between.
LabelsOf(s) ==
  { ab \in Bounds(s) \X Bounds(s) :
      /\ ab[1] < ab[2]
      /\ \A c \in Bounds(s) : ~(ab[1] < c /\ c < ab[2]) }

\* The label between the bounds has 1 to 63 characters, all letters, digits
\* or hyphens, and neither starts nor ends with a hyphen.
LabelOk(s, ab) ==
  /\ ab[2] - ab[1] - 1 >= 1
  /\ ab[2] - ab[1] - 1 <= 63
  /\ \A i \in (ab[1] + 1)..(ab[2] - 1) : s[i] \in AlphaNum \cup {"-"}
  /\ s[ab[1] + 1] # "-"
  /\ s[ab[2] - 1] # "-"

\* C26: isValidDomain rejects every name without a top-level label: for a
\* string made of a single label (no dot) it returns false.
C26_SingleLabelRejected ==
  (/\ vResult # "none"
   /\ vDomain.type = "string"
   /\ Dots(vDomain.chars) = {})
    => vResult = "false"

\* C27: a name of several labels is accepted exactly when every label is 1 to
\* 63 letters, digits or hyphens, none starts or ends with a hyphen, and the
\* whole name has at most 253 characters; an argument that is not a string,
\* or the empty string, is rejected.
C27_MultiLabelAcceptance ==
  vResult # "none"
    => /\ (vDomain.type # "string" \/ vDomain.chars = <<>>) => vResult = "false"
       /\ (vDomain.type = "string" /\ Dots(vDomain.chars) # {})
            => (vResult = "true"
                  <=> /\ \A ab \in LabelsOf(vDomain.chars) :
                           LabelOk(vDomain.chars, ab)
                      /\ Len(vDomain.chars) <= 253)

\* A name of four labels and exactly 253 characters was accepted.
C27_Witness ==
  /\ vResult = "true"
  /\ vDomain.type = "string"
  /\ Len(vDomain.chars) = 253
  /\ Cardinality(Dots(vDomain.chars)) = 3

\* A name whose labels are all well formed was rejected for its 254
\* characters.
C27_WitnessTooLong ==
  /\ vResult = "false"
  /\ vDomain.type = "string"
  /\ Len(vDomain.chars) = 254
  /\ \A ab \in LabelsOf(vDomain.chars) : LabelOk(vDomain.chars, ab)

\* ------------------------------------------------------------------------
\* Properties of the check command
\* ------------------------------------------------------------------------
\* The statuses among the results check got.
ResultStatuses == { cmdResults[i].status : i \in 1..Len(cmdResults) }

\* check has run the batch and exited.
BatchSummarized == cmdPc = "exited" /\ Len(cmdResults) > 0

\* C28: the summary is error if any result is unknown, else available if all
\* are available, else registered if all are registered, else mixed.
C28_SummaryClassification ==
  BatchSummarized
    => overallStatus =
         IF "unknown" \in ResultStatuses THEN "error"
         ELSE IF ResultStatuses = {"available"} THEN "available"
         ELSE IF ResultStatuses = {"registered"} THEN "registered"
         ELSE "mixed"

\* C29: for a non-empty list of valid domains the exit code depends on the
\* set of result statuses only: 2 exactly when a result is unknown, 0 exactly
\* when every result is available, 1 otherwise.
C29_ExitCodeFromStatuses ==
  BatchSummarized
    => /\ exitCode \in {0, 1, 2}
       /\ exitCode = 2 <=> "unknown" \in ResultStatuses
       /\ exitCode = 0 <=> ResultStatuses = {"available"}

\* An available and a registered result, in this order, gave exit code 1.
C29_Witness ==
  /\ BatchSummarized
  /\ Len(cmdResults) = 2
  /\ cmdResults[1].status = "available"
  /\ cmdResults[2].status = "registered"
  /\ exitCode = 1

\* The same two statuses in the other order.
C29_WitnessReversed ==
  /\ BatchSummarized
  /\ Len(cmdResults) = 2
  /\ cmdResults[1].status = "registered"
  /\ cmdResults[2].status = "available"
  /\ exitCode = 1

\* An unknown result followed by an available one gave exit code 2.
C29_WitnessUnknownFirst ==
  /\ BatchSummarized
  /\ Len(cmdResults) = 2
  /\ cmdResults[1].status = "unknown"
  /\ cmdResults[2].status = "available"
  /\ exitCode = 2

\* Domain i of the command line fails isValidDomain.
Invalid(i) == ~isValidDomain(NameOf(DomainOf(items[i])))

\* C30: when any domain given fails isValidDomain, no checkDomain call is
\* made and no request is sent for any domain, and check exits with code 2.
C30_ValidationBeforeNetwork ==
  (\E i \in 1..N : Invalid(i))
    => /\ callOrder = <<>>
       /\ \A i \in 1..N : cstate[i] = "idle" /\ sent[i] = <<>>
       /\ cmdPc = "exited" => exitCode = 2

\* check exited with code 2 on a valid domain followed by an invalid one,
\* without a call for either.
C30_Witness ==
  /\ N = 2
  /\ ~Invalid(1)
  /\ Invalid(2)
  /\ cmdPc = "exited"
  /\ exitCode = 2
  /\ callOrder = <<>>
  /\ sent = <<<<>>, <<>>>>


\* ------------------------------------------------------------------------
\* Properties of the pool: delivery order, hung workers, completion
\* ------------------------------------------------------------------------
\* Where x stands in seq (0 when it does not occur).
Pos(seq, x) ==
  IF \E k \in 1..Len(seq) : seq[k] = x
  THEN CHOOSE k \in 1..Len(seq) : seq[k] = x
  ELSE 0

\* onResult is invoked for item i in this step.
Delivers(i) ==
  /\ mode = "streaming"
  /\ wstate[i] = "fulfilled"
  /\ wstate'[i] \in {"thenOk", "thenErr"}
  /\ callbacks' = Append(callbacks, <<wvalue[i], items[i]>>)

\* Worker j settled successfully before worker i did and onResult has not
\* been invoked for it yet (reactions lists the settled workers whose
\* reaction has not run, in the order in which they settled).
SettledEarlierUndelivered(j, i) ==
  /\ wstate[j] = "fulfilled"
  /\ Pos(reactions, j) < Pos(reactions, i)

\* C31: runConcurrentStreaming delivers results in completion order: when
\* onResult is invoked for an item, no other item whose worker succeeded
\* earlier is still waiting for its onResult, so of two succeeding workers
\* the one that settled first has its onResult invoked first.
C31_CompletionOrderDelivery ==
  [][\A i \in 1..N :
       Delivers(i) => ~(\E j \in 1..N : j # i /\ SettledEarlierUndelivered(j, i))]_vars

\* C31 witness: three workers ran at once and settled in the reverse of the
\* input order, and onResult was invoked in that order: 3, 2, 1.
C31_Witness ==
  /\ mode = "streaming"
  /\ N = 3
  /\ pc = "resolved"
  /\ Len(callbacks) = 3
  /\ \A k \in 1..3 : callbacks[k][2] = items[4 - k] /\ items[4 - k] = 4 - k


\* One worker of the call hangs.
OneHung == \E h \in 1..N : outcome[h] = "never"

\* Every item but the hung one has been dispatched and its worker settled.
OthersCompleted == \A i \in 1..N : outcome[i] # "none"

\* C32: a hung task occupies only its own slot: with concurrency >= 2, when
\* one worker never settles and every other worker eventually settles,
\* every other item is eventually dispatched and completed.
C32_HungTaskOnlyOwnSlot == (concArg >= 2 /\ OneHung) ~> OthersCompleted


\* ------------------------------------------------------------------------
\* Properties of the bootstrap cache under overlapping lookups
\* ------------------------------------------------------------------------
\* Call k's bootstrap fetch fails in this step.
FetchFails(k) ==
  /\ k <= Len(lookups)
  /\ lookups[k].state = "fetching"
  /\ lookups'[k].state = "done"
  /\ ~lookups'[k].ok

\* Some other call is waiting for its bootstrap fetch.
FetchInFlight == \E k \in 1..Len(lookups) : lookups[k].state = "fetching"

\* C33: lookups that find the cache absent or stale while fetches of other
\* lookups are in flight each issue a fetch of their own; a lookup whose
\* fetch succeeds answers from the mapping that fetch returned, and the
\* cache then holds that mapping under that lookup's time, whatever an
\* earlier completion stored: after all have completed the cache is the one
\* stored by the fetch that completed last.
C33_CacheMissRace ==
  [][/\ (LookupStarts /\ StartedWithTld /\ FetchInFlight
           /\ ~CacheValid(ianaCache, clock'))
          => /\ Started.fetch
             /\ Started.state = "fetching"
     /\ \A k \in 1..MaxLookups :
          FetchSucceeds(k)
            => /\ lookups'[k].url = ListedUrl(lookups'[k].data,
                                              LastLabel(lookups[k].domain))
               /\ ianaCache' = CacheEntry(lookups[k].now, lookups'[k].data)]_vars

\* C33 witness: two lookups both found the cache absent and fetched; the one
\* that started first completed last, with another document than the other
\* one got, and that document is what the cache holds; each returned the URL
\* of its own document.
C33_Witness ==
  /\ Len(lookups) >= 2
  /\ \A k \in 1..2 : /\ lookups[k].saw = "absent"
                     /\ lookups[k].state = "done"
                     /\ lookups[k].ok
                     /\ lookups[k].url =
                          ListedUrl(lookups[k].data, LastLabel(lookups[k].domain))
  /\ lookups[1].data # lookups[2].data
  /\ lookups[1].url # lookups[2].url
  /\ lookups[1].now < lookups[2].now
  /\ ianaCache = CacheEntry(lookups[1].now, lookups[1].data)

\* C34: invalidation is not undone by a fetch in flight: as long as no
\* lookup has started since clearIanaCache() returned, the cache stays
\* empty; the data of a fetch that began before the call is not stored.
C34_InvalidationNotUndone == invalidated => ~ianaCache.present

\* C35: the timestamp of the cache never moves backwards: an entry that
\* replaces another carries a timestamp greater than or equal to that of the
\* entry it replaces.
C35_TimestampMonotonic ==
  [][(ianaCache.present /\ ianaCache'.present)
       => ianaCache'.timestamp >= ianaCache.timestamp]_vars

\* C36: a failed bootstrap fetch leaves the cache exactly as it was, mapping
\* and timestamp, and nothing about the failure is kept: a lookup that
\* afterwards finds the entry absent or expired issues a fetch of its own.
C36_FailedFetchLeavesCache ==
  [][/\ \A k \in 1..MaxLookups : FetchFails(k) => ianaCache' = ianaCache
     /\ (LookupStarts /\ StartedWithTld /\ ~CacheValid(ianaCache, clock')
           /\ \E k \in 1..Len(lookups) :
                lookups[k].state = "done" /\ lookups[k].fetch /\ ~lookups[k].ok)
          => Started.fetch /\ Started.state = "fetching"]_vars

\* C36 witness: a first lookup stored an entry; a second one found it
\* expired and its fetch failed; the entry is still exactly the one the first
\* stored, and a third lookup that found it expired issued a fetch again.
C36_Witness ==
  /\ Len(lookups) = 3
  /\ lookups[1].ok /\ lookups[1].state = "done"
  /\ lookups[2].saw = "expired"
  /\ lookups[2].fetch /\ ~lookups[2].ok /\ lookups[2].state = "done"
  /\ lookups[3].saw = "expired"
  /\ lookups[3].fetch
  /\ lookups[3].state = "fetching"
  /\ ianaCache = CacheEntry(lookups[1].now, lookups[1].data)


\* ------------------------------------------------------------------------
\* Properties of the pool: resolution, callback errors, start order
\* ------------------------------------------------------------------------
\* No worker is in flight and no onResult is still to come.
NothingPending ==
  \A i \in 1..N : wstate[i] \notin {"running", "fulfilled", "rejected"}

\* C37: runConcurrentStreaming resolves only after every item has been
\* dispatched and every dispatched worker has settled: once it has resolved
\* no worker is in flight and no onResult remains to be invoked.
C37_ResolvesAfterAllSettled ==
  (mode = "streaming" /\ pc = "resolved")
    => /\ \A i \in 1..N : Count(callOrder, i) = 1
       /\ InFlight = {}
       /\ NothingPending

\* onResult has been invoked for item i.
Delivered(i) == \E k \in 1..Len(callbacks) : callbacks[k] = <<wvalue[i], items[i]>>

\* What a streaming call comes to when no exception of onResult gets in the
\* way: it never rejects, and once it has resolved a worker has been started
\* for every entry the loop dispatches (those that are not undefined) and
\* onResult has been invoked for every item whose worker succeeded.
StreamingCarriesOn ==
  /\ pc # "rejected"
  /\ pc = "resolved" =>
       \A i \in 1..N :
         /\ items[i] # Undefined => Count(callOrder, i) = 1
         /\ outcome[i] = "ok" => Delivered(i)

\* onResult threw for item i: its worker succeeded and the .then rejected.
OnResultThrew(i) == outcome[i] = "ok" /\ wstate[i] = "thenErr"

\* C38: an exception thrown by onResult is swallowed like a worker failure:
\* the chain of that item goes on as fulfilled, the call does not reject,
\* the remaining items are dispatched and onResult is invoked for every
\* other successful item.
C38_CallbackErrorSwallowed ==
  [][mode = "streaming" =>
       /\ \A i \in 1..N :
            (OnResultThrew(i) /\ wstate'[i] # wstate[i]) => wstate'[i] = "caught"
       /\ StreamingCarriesOn']_vars

\* C38 witness: with one slot and two items, onResult was invoked for the
\* first item and threw while the second item was still waiting to be
\* dispatched.
C38_Witness ==
  /\ mode = "streaming"
  /\ N = 2
  /\ concurrency = 1
  /\ OnResultThrew(1)
  /\ callOrder = <<1>>
  /\ callbacks = <<<<WorkerValue(1), 1>>>>

\* C39: the result of runConcurrent does not depend on the concurrency: with
\* a worker that never fails, the worker invocations and the returned array
\* are those of the dispatch-all path (one invocation per index, the
\* worker's value at every index), lists with undefined entries included.
C39_ConcurrencyIndependent ==
  (mode = "batch" /\ pc = "resolved" /\ AllSucceed)
    => /\ callOrder = IndexSeq
       /\ returned = [i \in 1..N |-> WorkerValue(items[i])]

\* C40: in both modes the items are started in input order: the worker for
\* items[j] is never invoked before the worker for items[i] when i < j.
C40_StartedInInputOrder ==
  \A a, b \in 1..Len(callOrder) : a < b => callOrder[a] < callOrder[b]

\* C40 witness: with two slots, three items were started 1, 2, 3 although
\* the second completed before the first.
C40_Witness ==
  /\ N = 3
  /\ concurrency = 2
  /\ callOrder = <<1, 2, 3>>
  /\ outcome[2] # "none"
  /\ outcome[1] = "none"

====
